---- MODULE Spec2Model ----
(***************************************************************************)
(* Location-confidence scoring of src/verification_checker.py.             *)
(*                                                                         *)
(* Numbers.  The program computes with binary floats on decimal literals.  *)
(* The model computes the same decimal quantities exactly, in fixed point: *)
(* a signal score s is the integer s * 10000, a weight w is w * 100, and a *)
(* contribution or composite c is c * 1000000.  So 0.75 is 750000 as a     *)
(* composite and 7500 as a score.                                          *)
(*                                                                         *)
(* Text.  Bios, handles, descriptions and rationales are TLA+ strings;     *)
(* substring search and lower-casing are computed character by character.  *)
(***************************************************************************)
EXTENDS Integers, Sequences, FiniteSets, TLC

VARIABLES
    creators,       \* data['creators']: sequence of rows [creator_id, state]
    evidence,       \* data['evidence']: sequence of rows [creator_id, signal_type, description, collection_date]
    platforms,      \* data['platforms']: sequence of rows [creator_id, handle, linked_hub]
    now,            \* the wall clock read by datetime.now(), in days
    pc,             \* position of main(): "audit", "report" or "done"
    idx,            \* run_verification_audit: number of creator ids already visited
    verification_results,  \* run_verification_audit: the rows appended so far
    report,         \* generate_verification_report's return value (NoValue before)
    result,         \* direct calls: the latest outcome, [creator_id or type, out]
    previous,       \* single lookups: the outcome of the call before, if for the same id
    bio,            \* direct extractor calls: the bio passed to verify_bio_location
    verification_scores,   \* direct aggregator calls: the score dictionary passed in
    aggregate,      \* direct aggregator calls: what calculate_overall_confidence returned
    business,       \* metrics calculator: the business_data dictionary of the creator
    tier_args,      \* metrics calculator: the arguments passed to calculate_creator_tier
    metrics,        \* metrics calculator: the latest outcome, [fn, out]
    metric_rows,    \* metrics calculator: data['metrics'], the rows of metrics.csv
    all_creator_metrics,   \* metrics calculator: the dictionary handed to save_calculated_metrics
    calculated_metrics,    \* metrics calculator: what save_calculated_metrics did (NoValue before)
    validation_errors,     \* validator: the list object self.validation_errors
    validation_warnings,   \* validator: the list object self.validation_warnings
    reports         \* validator: the reports run_validation has returned, as their holder sees them

\* the variables of the metrics calculator and of the validator
metricsVars == <<business, tier_args, metrics, metric_rows, all_creator_metrics,
                 calculated_metrics, validation_errors, validation_warnings, reports>>

vars == <<creators, evidence, platforms, now, pc, idx, verification_results,
          report, result, previous, bio, verification_scores, aggregate,
          business, tier_args, metrics, metric_rows, all_creator_metrics,
          calculated_metrics, validation_errors, validation_warnings, reports>>

NoValue == [none |-> TRUE]
\* Python's None where a text is expected (never a text the tables hold)
NoText == "<None>"

\* the metrics calculator has not been called
ValidatorIdle ==
    validation_errors = <<>> /\ validation_warnings = <<>> /\ reports = <<>>
SaveIdle == all_creator_metrics = <<>> /\ calculated_metrics = NoValue
MetricsIdle ==
    /\ business = <<>> /\ tier_args = NoValue /\ metrics = NoValue
    /\ metric_rows = <<>>
    /\ SaveIdle
    /\ ValidatorIdle

-----------------------------------------------------------------------------
(* Text helpers: Python's str.lower(), `in`, and str.join.                 *)

\* str.lower() on one character
LowerChar ==
    [A |-> "a", B |-> "b", C |-> "c", D |-> "d", E |-> "e", F |-> "f", G |-> "g",
     H |-> "h", I |-> "i", J |-> "j", K |-> "k", L |-> "l", M |-> "m", N |-> "n",
     O |-> "o", P |-> "p", Q |-> "q", R |-> "r", S |-> "s", T |-> "t", U |-> "u",
     V |-> "v", W |-> "w", X |-> "x", Y |-> "y", Z |-> "z"]

RECURSIVE Lower(_)
Lower(s) ==
    IF Len(s) = 0 THEN ""
    ELSE LET c == SubSeq(s, 1, 1)
         IN  (IF c \in DOMAIN LowerChar THEN LowerChar[c] ELSE c)
                \o Lower(SubSeq(s, 2, Len(s)))

\* Python: k in t
Contains(t, k) ==
    \E i \in 1..(Len(t) - Len(k) + 1) : SubSeq(t, i, i + Len(k) - 1) = k

EndsWith(t, k) ==
    Len(t) >= Len(k) /\ SubSeq(t, Len(t) - Len(k) + 1, Len(t)) = k

\* Python: sep.join(items)
RECURSIVE Join(_, _)
Join(items, sep) ==
    IF Len(items) = 0 THEN ""
    ELSE IF Len(items) = 1 THEN items[1]
    ELSE items[1] \o sep \o Join(Tail(items), sep)

\* pandas: NaN compares unequal to everything, itself included
NaN == "NaN"
IdEq(a, b) == a # NaN /\ b # NaN /\ a = b

\* df[df['creator_id'] == creator_id]
RowsOf(table, creator_id) ==
    SelectSeq(table, LAMBDA r : IdEq(r.creator_id, creator_id))

-----------------------------------------------------------------------------
(* Configuration set by __init__.                                          *)

state_keywords ==
    [NE |-> <<"nebraska", "ne", "omaha", "lincoln", "grand island", "kearney",
              "bellevue", "fremont">>,
     IA |-> <<"iowa", "ia", "des moines", "dsm", "cedar rapids", "iowa city",
              "davenport", "waterloo", "ames">>]

\* iteration order of self.state_keywords.items()
state_order == <<"NE", "IA">>

-----------------------------------------------------------------------------
(* Signal extractors.  Each returns [score, notes] or, where the Python    *)
(* raises, [exc |-> <exception>].                                          *)

Scored(score, notes) == [score |-> score, notes |-> notes]
Raised(e) == [exc |-> e]
IsExc(r) == "exc" \in DOMAIN r

\* found_keywords of one state: its keywords occurring in the lowered text
FoundKeywords(text_lower, state) ==
    SelectSeq(state_keywords[state], LAMBDA kw : Contains(text_lower, kw))

\* detect_location_mentions: the states with at least one keyword found, in
\* dictionary order, each with its found keywords; an absent or empty text
\* yields the empty dictionary
detect_location_mentions(text) ==
    IF text = NoText \/ text = "" THEN <<>>
    ELSE LET text_lower == Lower(text)
             all == [i \in 1..Len(state_order) |->
                       [state |-> state_order[i],
                        keywords |-> FoundKeywords(text_lower, state_order[i])]]
         IN  SelectSeq(all, LAMBDA l : Len(l.keywords) > 0)

\* the competing-region rule tried before the target region's
verify_bio_location_competitorFirst(bio_text, creator_state) ==
    IF bio_text = NoText \/ bio_text = "" THEN Scored(0, "No bio available")
    ELSE
      LET locations == detect_location_mentions(bio_text)
          own == SelectSeq(locations, LAMBDA l : l.state = creator_state)
          others == SelectSeq(locations,
                      LAMBDA l : l.state # creator_state /\ Len(l.keywords) >= 2)
      IN  IF Len(others) > 0
          THEN Scored(4000, "Multiple " \o others[1].state \o " references: "
                              \o Join(others[1].keywords, ", "))
          ELSE IF Len(own) > 0
          THEN LET found_state_keywords ==
                       FoundKeywords(Lower(bio_text), creator_state)
               IN  IF Len(found_state_keywords) >= 2
                   THEN Scored(8000, "Multiple location references: "
                                       \o Join(found_state_keywords, ", "))
                   ELSE Scored(7000, "Single location reference: "
                                       \o found_state_keywords[1])
          ELSE IF Len(locations) > 0
          THEN Scored(2500, "Single " \o locations[1].state \o " reference: "
                              \o locations[1].keywords[1])
          ELSE Scored(0, "No location references found")

verify_bio_location(bio_text, creator_state) ==
    IF bio_text = NoText \/ bio_text = "" THEN Scored(0, "No bio available")
    ELSE
      LET locations == detect_location_mentions(bio_text)
          own == SelectSeq(locations, LAMBDA l : l.state = creator_state)
          others == SelectSeq(locations,
                      LAMBDA l : l.state # creator_state /\ Len(l.keywords) >= 2)
      IN  IF Len(own) > 0
          THEN LET found_state_keywords ==
                       FoundKeywords(Lower(bio_text), creator_state)
               IN  IF Len(found_state_keywords) >= 2
                   THEN Scored(8000, "Multiple location references: "
                                       \o Join(found_state_keywords, ", "))
                   ELSE Scored(7000, "Single location reference: "
                                       \o found_state_keywords[1])
          ELSE IF Len(others) > 0
          THEN Scored(4000, "Multiple " \o others[1].state \o " references: "
                              \o Join(others[1].keywords, ", "))
          ELSE IF Len(locations) > 0
          THEN Scored(2500, "Single " \o locations[1].state \o " reference: "
                              \o locations[1].keywords[1])
          ELSE Scored(0, "No location references found")

\* the filter on signal_type alone: every creator's records are counted
EvidenceOf_anyCreator(creator_id, evidence_data, t) ==
    SelectSeq(evidence_data, LAMBDA r : r.signal_type = t)

\* evidence_data[(creator_id == creator_id) & (signal_type == t)]
EvidenceOf(creator_id, evidence_data, t) ==
    SelectSeq(evidence_data,
              LAMBDA r : IdEq(r.creator_id, creator_id) /\ r.signal_type = t)

\* timedelta(days=90)
RecentDays == 90

\* the no-evidence branch returning an empty rationale
verify_geotag_consistency_silent(creator_id, evidence_data, clock) ==
    LET creator_evidence == EvidenceOf(creator_id, evidence_data, "geotag")
        recent_evidence ==
            SelectSeq(creator_evidence,
                      LAMBDA r : r.collection_date > clock - RecentDays)
        r == Len(recent_evidence)
        h == Len(creator_evidence)
    IN  IF h = 0 THEN Scored(0, "")
        ELSE IF r >= 5
        THEN Scored(6000, "Consistent geotags: " \o ToString(r) \o " recent instances")
        ELSE IF r >= 2
        THEN Scored(4000, "Multiple geotags: " \o ToString(r) \o " recent instances")
        ELSE IF r = 1 THEN Scored(2000, "Single recent geotag")
        ELSE IF h >= 3
        THEN Scored(3000, "Historical geotags: " \o ToString(h) \o " instances (older)")
        ELSE Scored(1500, "Few historical geotags: " \o ToString(h) \o " instances")

\* a single recent record scoring below a few historical ones
verify_geotag_consistency_lowSingle(creator_id, evidence_data, clock) ==
    LET creator_evidence == EvidenceOf(creator_id, evidence_data, "geotag")
        r == Len(SelectSeq(creator_evidence,
                           LAMBDA e : e.collection_date > clock - RecentDays))
        h == Len(creator_evidence)
    IN  IF h = 0 THEN Scored(0, "No geotag evidence")
        ELSE IF r >= 5 THEN Scored(6000, "Consistent geotags")
        ELSE IF r >= 2 THEN Scored(4000, "Multiple geotags")
        ELSE IF r = 1 THEN Scored(1000, "Single recent geotag")
        ELSE IF h >= 3 THEN Scored(3000, "Historical geotags")
        ELSE Scored(1500, "Few historical geotags")

\* clock: the value of datetime.now() at the call
verify_geotag_consistency(creator_id, evidence_data, clock) ==
    LET creator_evidence == EvidenceOf(creator_id, evidence_data, "geotag")
        recent_evidence ==
            SelectSeq(creator_evidence,
                      LAMBDA r : r.collection_date > clock - RecentDays)
        r == Len(recent_evidence)
        h == Len(creator_evidence)
    IN  IF h = 0 THEN Scored(0, "No geotag evidence")
        ELSE IF r >= 5
        THEN Scored(6000, "Consistent geotags: " \o ToString(r) \o " recent instances")
        ELSE IF r >= 2
        THEN Scored(4000, "Multiple geotags: " \o ToString(r) \o " recent instances")
        ELSE IF r = 1 THEN Scored(2000, "Single recent geotag")
        ELSE IF h >= 3
        THEN Scored(3000, "Historical geotags: " \o ToString(h) \o " instances (older)")
        ELSE Scored(1500, "Few historical geotags: " \o ToString(h) \o " instances")

\* Series.str.contains(creator_state, case=False, na=False) on one description
DescriptionMatchesState(description, creator_state) ==
    /\ description # NoText
    /\ Contains(Lower(description), Lower(creator_state))

\* pd.read_csv reads a description column that holds no value in any row as a
\* float column (all NaN), and as a text column as soon as one row has a value
TextColumn(evidence_data) ==
    \E i \in 1..Len(evidence_data) : evidence_data[i].description # NoText

\* the recency filter of the geotag check applied to registry records too
verify_business_registration_recent(creator_id, evidence_data, creator_state) ==
    LET creator_evidence ==
            SelectSeq(EvidenceOf(creator_id, evidence_data, "registry"),
                      LAMBDA r : r.collection_date > now - RecentDays)
        state_evidence ==
            SelectSeq(creator_evidence,
                      LAMBDA r : DescriptionMatchesState(r.description, creator_state))
    IN  IF Len(creator_evidence) = 0
        THEN Scored(0, "No business registration evidence")
        ELSE IF ~TextColumn(evidence_data)
        THEN Raised("AttributeError")
        ELSE IF Len(state_evidence) >= 1
        THEN Scored(9000, "Business registered in " \o creator_state)
        ELSE IF Len(creator_evidence) >= 1
        THEN Scored(5000, "Business registration found (state unclear)")
        ELSE Scored(0, "No valid registration evidence")

verify_business_registration(creator_id, evidence_data, creator_state) ==
    LET creator_evidence == EvidenceOf(creator_id, evidence_data, "registry")
        state_evidence ==
            SelectSeq(creator_evidence,
                      LAMBDA r : DescriptionMatchesState(r.description, creator_state))
    IN  IF Len(creator_evidence) = 0
        THEN Scored(0, "No business registration evidence")
        \* creator_evidence['description'].str on a float column: pandas raises
        \* "Can only use .str accessor with string values"
        ELSE IF ~TextColumn(evidence_data)
        THEN Raised("AttributeError")
        ELSE IF Len(state_evidence) >= 1
        THEN Scored(9000, "Business registered in " \o creator_state)
        ELSE IF Len(creator_evidence) >= 1
        THEN Scored(5000, "Business registration found (state unclear)")
        ELSE Scored(0, "No valid registration evidence")

\* str(evidence['description']).lower(): a missing description prints as nan
DescriptionText(description) ==
    IF description = NoText THEN "nan" ELSE Lower(description)

verify_collaboration_evidence(creator_id, evidence_data, creator_state) ==
    LET creator_evidence == EvidenceOf(creator_id, evidence_data, "collaboration")
    IN  IF Len(creator_evidence) = 0 THEN Scored(0, "No collaboration evidence")
        ELSE IF creator_state \notin DOMAIN state_keywords
        THEN Raised("KeyError")      \* self.state_keywords[creator_state]
        ELSE
          LET keywords == state_keywords[creator_state]
              state_collabs ==
                  Len(SelectSeq(creator_evidence,
                        LAMBDA r : \E i \in 1..Len(keywords) :
                            Contains(DescriptionText(r.description), keywords[i])))
          IN  IF state_collabs >= 3
              THEN Scored(5500, "Multiple " \o creator_state \o " collaborations: "
                                  \o ToString(state_collabs) \o " instances")
              ELSE IF state_collabs >= 1
              THEN Scored(4000, creator_state \o " collaboration: "
                                  \o ToString(state_collabs) \o " instance")
              ELSE Scored(2000, "Collaborations found but not " \o creator_state
                                  \o "-specific")

\* re.sub(r'[_\-](of|fans|creator|official)$', '', handle)
HandleSuffixes ==
    {sep \o w : sep \in {"_", "-"}, w \in {"of", "fans", "creator", "official"}}

\* handles compared as they are, no suffix removed
CleanHandle_asIs(handle) == handle

CleanHandle(handle) ==
    IF \E x \in HandleSuffixes : EndsWith(handle, x)
    THEN LET x == CHOOSE y \in HandleSuffixes : EndsWith(handle, y)
         IN  SubSeq(handle, 1, Len(handle) - Len(x))
    ELSE handle

\* linked_hub.notna() & (linked_hub != '') & (linked_hub != 'None')
HasLinkedHub(row) ==
    row.linked_hub # NoText /\ row.linked_hub # "" /\ row.linked_hub # "None"

\* the sum of the three parts returned as it is, without min(..., 0.5)
verify_platform_consistency_uncapped(creator_id, platforms_data) ==
    LET creator_platforms == RowsOf(platforms_data, creator_id)
        n == Len(creator_platforms)
        linked == Len(SelectSeq(creator_platforms, HasLinkedHub))
        base_handles ==
            {CleanHandle(Lower(creator_platforms[i].handle)) : i \in 1..n}
        b == Cardinality(base_handles)
        consistency_score ==
            (IF linked >= 2 THEN 3000 ELSE IF linked = 1 THEN 1500 ELSE 0)
            + (IF b <= 2 /\ n >= 3 THEN 2000 ELSE IF b <= 3 THEN 1000 ELSE 0)
            + (IF n >= 4 THEN 1000 ELSE IF n >= 2 THEN 500 ELSE 0)
    IN  IF n <= 1 THEN Scored(1000, "Single platform presence")
        ELSE Scored(consistency_score, "Multiple platforms")

\* a creator without platform rows scores nothing
verify_platform_consistency_noFloor(creator_id, platforms_data) ==
    LET creator_platforms == RowsOf(platforms_data, creator_id)
    IN  IF Len(creator_platforms) = 0 THEN Scored(0, "No platform presence")
        ELSE IF Len(creator_platforms) = 1 THEN Scored(1000, "Single platform presence")
        ELSE Scored(5000, "Multiple platforms")

verify_platform_consistency(creator_id, platforms_data) ==
    LET creator_platforms == RowsOf(platforms_data, creator_id)
        n == Len(creator_platforms)
        linked == Len(SelectSeq(creator_platforms, HasLinkedHub))
        base_handles ==
            {CleanHandle(Lower(creator_platforms[i].handle)) : i \in 1..n}
        b == Cardinality(base_handles)
        hub == IF linked >= 2
               THEN Scored(3000, <<"Multiple link hubs: " \o ToString(linked)>>)
               ELSE IF linked = 1 THEN Scored(1500, <<"Single link hub">>)
               ELSE Scored(0, <<>>)
        handle == IF b <= 2 /\ n >= 3
                  THEN Scored(2000, <<"Consistent handles across platforms">>)
                  ELSE IF b <= 3
                  THEN Scored(1000, <<"Moderately consistent handles">>)
                  ELSE Scored(0, <<>>)
        count == IF n >= 4
                 THEN Scored(1000, <<"High platform diversity: " \o ToString(n)
                                       \o " platforms">>)
                 ELSE IF n >= 2
                 THEN Scored(500, <<"Multiple platforms: " \o ToString(n)
                                      \o " platforms">>)
                 ELSE Scored(0, <<>>)
        consistency_score == hub.score + handle.score + count.score
        notes == hub.notes \o handle.notes \o count.notes
    IN  IF n <= 1 THEN Scored(1000, "Single platform presence")
        ELSE Scored(IF consistency_score < 5000 THEN consistency_score ELSE 5000,
                    IF Len(notes) > 0 THEN Join(notes, "; ")
                    ELSE "Basic platform presence")

-----------------------------------------------------------------------------
(* Aggregator.                                                             *)

\* a weight table with one weight mistyped (0.2 for 0.1)
weights_mistyped ==
    [business_registration |-> 30, bio_location |-> 25, geotag_consistency |-> 20,
     collaboration_evidence |-> 15, platform_consistency |-> 20]

\* the weights dictionary of calculate_overall_confidence, times 100
weights ==
    [business_registration |-> 30, bio_location |-> 25, geotag_consistency |-> 20,
     collaboration_evidence |-> 15, platform_consistency |-> 10]

\* weights.get(verify_type, 0.0)
WeightOf(verify_type) ==
    IF verify_type \in DOMAIN weights THEN weights[verify_type] ELSE 0

\* one entry of the breakdown dictionary
BreakdownEntry(e) ==
    [type |-> e.type, score |-> e.score, weight |-> WeightOf(e.type),
     contribution |-> e.score * WeightOf(e.type), notes |-> e.notes]

\* the running sum overwritten instead of accumulated (= for +=)
SumContributions_last(breakdown) ==
    IF Len(breakdown) = 0 THEN 0 ELSE breakdown[Len(breakdown)].contribution

\* weighted_score after the loop: the running sum of the contributions
RECURSIVE SumContributions(_)
SumContributions(breakdown) ==
    IF Len(breakdown) = 0 THEN 0
    ELSE breakdown[1].contribution + SumContributions(Tail(breakdown))

\* min(weighted_score, 1.0)
CapConfidence(weighted_score) ==
    IF weighted_score < 1000000 THEN weighted_score ELSE 1000000

\* the ladder with the top bound exclusive (> for >=)
ConfidenceLevel_exclusive(overall_confidence) ==
    IF overall_confidence > 750000 THEN "High"
    ELSE IF overall_confidence >= 500000 THEN "Medium"
    ELSE IF overall_confidence >= 250000 THEN "Low"
    ELSE "Undetermined"

\* the if/elif ladder on overall_confidence
ConfidenceLevel(overall_confidence) ==
    IF overall_confidence >= 750000 THEN "High"
    ELSE IF overall_confidence >= 500000 THEN "Medium"
    ELSE IF overall_confidence >= 250000 THEN "Low"
    ELSE "Undetermined"

\* the breakdown keeping only the signals that scored above zero
calculate_overall_confidence_sparse(scores, creator_state) ==
    LET scored == SelectSeq(scores, LAMBDA e : e.score > 0)
        breakdown == [i \in 1..Len(scored) |-> BreakdownEntry(scored[i])]
        overall_confidence == CapConfidence(SumContributions(breakdown))
    IN  [overall_confidence |-> overall_confidence,
         confidence_level |-> ConfidenceLevel(overall_confidence),
         breakdown |-> breakdown]

\* scores: the dictionary as the sequence of its items, [type, score, notes]
calculate_overall_confidence(scores, creator_state) ==
    LET breakdown == [i \in 1..Len(scores) |-> BreakdownEntry(scores[i])]
        overall_confidence == CapConfidence(SumContributions(breakdown))
    IN  [overall_confidence |-> overall_confidence,
         confidence_level |-> ConfidenceLevel(overall_confidence),
         breakdown |-> breakdown]

-----------------------------------------------------------------------------
(* verify_creator.  data is [creators, evidence, platforms]; clock is the  *)
(* value datetime.now() returns during the call.                           *)

\* the placeholder bio built from the first platform row
BioText(creator_platforms) ==
    IF Len(creator_platforms) = 0 THEN NoText
    ELSE "Creator bio for " \o creator_platforms[1].handle

\* the five extractor calls, in the order verify_creator makes them
ExtractorResults(creator_id, creator_state, data, clock) ==
    LET creator_platforms == RowsOf(data.platforms, creator_id)
    IN  << [type |-> "bio_location",
            out |-> verify_bio_location(BioText(creator_platforms), creator_state)],
           [type |-> "geotag_consistency",
            out |-> verify_geotag_consistency(creator_id, data.evidence, clock)],
           [type |-> "business_registration",
            out |-> verify_business_registration(creator_id, data.evidence, creator_state)],
           [type |-> "collaboration_evidence",
            out |-> verify_collaboration_evidence(creator_id, data.evidence, creator_state)],
           [type |-> "platform_consistency",
            out |-> verify_platform_consistency(creator_id, creator_platforms)] >>

verify_creator(creator_id, data, clock) ==
    LET creator_info == RowsOf(data.creators, creator_id)
    IN  IF Len(creator_info) = 0 THEN [error |-> "Creator not found"]
        ELSE
          LET creator_state == creator_info[1].state
              outs == ExtractorResults(creator_id, creator_state, data, clock)
              failed == SelectSeq(outs, LAMBDA o : IsExc(o.out))
          IN  IF Len(failed) > 0 THEN failed[1].out
              ELSE
                LET scores == [i \in 1..Len(outs) |->
                                 [type |-> outs[i].type, score |-> outs[i].out.score,
                                  notes |-> outs[i].out.notes]]
                    agg == calculate_overall_confidence(scores, creator_state)
                IN  [creator_id |-> creator_id,
                     creator_state |-> creator_state,
                     overall_confidence |-> agg.overall_confidence,
                     confidence_level |-> agg.confidence_level,
                     verification_breakdown |-> agg.breakdown,
                     verification_timestamp |-> clock]

IsError(r) == "error" \in DOMAIN r
IsScored(r) == "overall_confidence" \in DOMAIN r

-----------------------------------------------------------------------------
(* run_verification_audit and generate_verification_report.                *)

\* Series.unique(): first occurrences in table order; NaN is kept, once
RECURSIVE Unique(_, _)
Unique(ids, seen) ==
    IF Len(ids) = 0 THEN <<>>
    ELSE IF Head(ids) \in seen THEN Unique(Tail(ids), seen)
    ELSE <<Head(ids)>> \o Unique(Tail(ids), seen \cup {Head(ids)})

UniqueCreatorIds(table) ==
    Unique([i \in 1..Len(table) |-> table[i].creator_id], {})

\* the flat row built from one result: five fixed columns, then the columns
\* <type>_score and <type>_notes of every breakdown entry
FlatRow(r) ==
    LET b == r.verification_breakdown
        EntryOf(c) == CHOOSE i \in 1..Len(b) :
                        c \in {b[i].type \o "_score", b[i].type \o "_notes"}
    IN  [creator_id |-> r.creator_id,
         creator_state |-> r.creator_state,
         overall_confidence |-> r.overall_confidence,
         confidence_level |-> r.confidence_level,
         verification_timestamp |-> r.verification_timestamp]
        @@ [c \in UNION {{b[i].type \o "_score", b[i].type \o "_notes"} : i \in 1..Len(b)} |->
              IF c = b[EntryOf(c)].type \o "_score" THEN b[EntryOf(c)].score
              ELSE b[EntryOf(c)].notes]

RECURSIVE SumOf(_, _)
SumOf(df, col) == IF Len(df) = 0 THEN 0 ELSE df[1][col] + SumOf(Tail(df), col)

\* Series.mean(), truncated to the fixed-point unit
MeanOf(df, col) == SumOf(df, col) \div Len(df)
MaxOf(df, col) == CHOOSE v \in {df[i][col] : i \in 1..Len(df)} :
                    \A i \in 1..Len(df) : df[i][col] <= v
MinOf(df, col) == CHOOSE v \in {df[i][col] : i \in 1..Len(df)} :
                    \A i \in 1..Len(df) : v <= df[i][col]

\* the values present, each counted once however often it occurs
ValueCounts_distinct(df, col) ==
    [v \in {df[i][col] : i \in 1..Len(df)} |-> 1]

\* Series.value_counts().to_dict(): the values present, each with its count
ValueCounts(df, col) ==
    [v \in {df[i][col] : i \in 1..Len(df)} |->
        Cardinality({i \in 1..Len(df) : df[i][col] = v})]

verification_types ==
    <<"bio_location", "geotag_consistency", "business_registration",
      "collaboration_evidence", "platform_consistency">>

generate_verification_report(verification_df) ==
    IF Len(verification_df) = 0 THEN [error |-> "No verification data available"]
    ELSE
      LET StateData(st) == SelectSeq(verification_df, LAMBDA r : r.creator_state = st)
          Columns == UNION {DOMAIN verification_df[i] : i \in 1..Len(verification_df)}
          Typed == {verification_types[i] : i \in 1..Len(verification_types)}
      IN  [total_creators |-> Len(verification_df),
           confidence_distribution |-> ValueCounts(verification_df, "confidence_level"),
           average_confidence |-> MeanOf(verification_df, "overall_confidence"),
           state_breakdown |->
              [st \in {x \in {"NE", "IA"} : Len(StateData(x)) > 0} |->
                 [count |-> Len(StateData(st)),
                  avg_confidence |-> MeanOf(StateData(st), "overall_confidence"),
                  confidence_levels |-> ValueCounts(StateData(st), "confidence_level")]],
           verification_stats |->
              [t \in {x \in Typed : (x \o "_score") \in Columns} |->
                 [avg_score |-> MeanOf(verification_df, t \o "_score"),
                  max_score |-> MaxOf(verification_df, t \o "_score"),
                  min_score |-> MinOf(verification_df, t \o "_score"),
                  creators_with_evidence |->
                     Cardinality({i \in 1..Len(verification_df) :
                                    verification_df[i][t \o "_score"] > 0})]]]

-----------------------------------------------------------------------------
(* Bounds of the explored tables, and the row kinds they are drawn from.   *)

MaxCreators == 2      \* rows of the creators table
MaxEvidence == 2      \* rows of the evidence table (batch run, single lookups)
MaxPlatforms == 2     \* rows of the platforms table (batch run, single lookups)
MaxSignalRows == 5    \* rows of one signal's table (direct extractor calls)
MaxBatch == 3         \* rows of the creators table (larger batch runs)

\* the values datetime.now() takes, in days; evidence is dated on the same axis
ClockDays == <<100, 110>>

SeqsUpTo(S, n) == UNION {[1..k -> S] : k \in 0..n}

\* the tables over the row kinds K (a sequence) of at most n rows, rows in
\* the order of K: one table per multiset of rows
SortedTables(K, n) ==
    {[i \in 1..Len(t) |-> K[t[i]]] :
        t \in {u \in SeqsUpTo(1..Len(K), n) :
                 \A i \in 1..(Len(u) - 1) : u[i] <= u[i + 1]}}

CreatorRow(c, st) == [creator_id |-> c, state |-> st]
EvidenceRow(c, t, d, day) ==
    [creator_id |-> c, signal_type |-> t, description |-> d, collection_date |-> day]
PlatformRow(c, h, hub) == [creator_id |-> c, handle |-> h, linked_hub |-> hub]

Data == [creators |-> creators, evidence |-> evidence, platforms |-> platforms]

-----------------------------------------------------------------------------
(* main(): the batch run.                                                  *)

AuditCreatorRows ==
    {CreatorRow("c1", "NE"), CreatorRow("c2", "Undetermined"), CreatorRow(NaN, "NE")}

AuditEvidenceKinds ==
    << EvidenceRow("c1", "geotag", "Omaha", 15),
       EvidenceRow("c1", "registry", NoText, 10),       \* no description in the file
       EvidenceRow("c2", "geotag", "Ames", 15),
       EvidenceRow("c2", "collaboration", "Lincoln expo", 10) >>

AuditPlatformKinds ==
    << PlatformRow("c1", "Omaha_NE", "linktr.ee/omaha"),
       PlatformRow("c2", "bird_official", "None") >>

Init ==
    /\ creators \in SeqsUpTo(AuditCreatorRows, MaxCreators)
    /\ evidence \in SortedTables(AuditEvidenceKinds, MaxEvidence)
    /\ platforms \in SortedTables(AuditPlatformKinds, MaxPlatforms)
    /\ now = ClockDays[1]
    /\ pc = "audit"
    /\ idx = 0
    /\ verification_results = <<>>
    /\ report = NoValue
    /\ result = NoValue
    /\ previous = NoValue
    /\ bio = NoText
    /\ verification_scores = <<>>
    /\ aggregate = NoValue
    /\ MetricsIdle

\* the loop without its try/except: an exception ends the run
AuditStep_abort ==
    /\ pc = "audit"
    /\ idx < Len(UniqueCreatorIds(creators))
    /\ LET r == verify_creator(UniqueCreatorIds(creators)[idx + 1], Data, now)
       IN  /\ verification_results' =
                 IF IsScored(r) THEN Append(verification_results, FlatRow(r))
                 ELSE verification_results
           /\ pc' = IF IsExc(r) THEN "done" ELSE pc
    /\ idx' = idx + 1
    /\ UNCHANGED <<creators, evidence, platforms, now, report, result, previous,
                   bio, verification_scores, aggregate>>
    /\ UNCHANGED metricsVars

\* the loop over the creators table's rows instead of its distinct ids
AuditStep_everyRow ==
    /\ pc = "audit"
    /\ idx < Len(UniqueCreatorIds(creators))
    /\ LET r == verify_creator(creators[idx + 1].creator_id, Data, now)
       IN  verification_results' =
              IF IsScored(r) THEN Append(verification_results, FlatRow(r))
              ELSE verification_results
    /\ idx' = idx + 1
    /\ UNCHANGED <<creators, evidence, platforms, now, pc, report, result, previous,
                   bio, verification_scores, aggregate>>
    /\ UNCHANGED metricsVars

\* one iteration of the for loop of run_verification_audit: the try body,
\* and the except clause that logs and continues
AuditStep ==
    /\ pc = "audit"
    /\ idx < Len(UniqueCreatorIds(creators))
    /\ LET r == verify_creator(UniqueCreatorIds(creators)[idx + 1], Data, now)
       IN  verification_results' =
              IF IsScored(r) THEN Append(verification_results, FlatRow(r))
              ELSE verification_results
    /\ idx' = idx + 1
    /\ UNCHANGED <<creators, evidence, platforms, now, pc, report, result, previous,
                   bio, verification_scores, aggregate>>
    /\ UNCHANGED metricsVars

\* the loop is exhausted: return pd.DataFrame(verification_results)
AuditReturn ==
    /\ pc = "audit"
    /\ idx = Len(UniqueCreatorIds(creators))
    /\ pc' = "report"
    /\ UNCHANGED <<creators, evidence, platforms, now, idx, verification_results,
                   report, result, previous, bio, verification_scores, aggregate>>
    /\ UNCHANGED metricsVars

\* main(): report = checker.generate_verification_report(verification_results)
GenerateReport ==
    /\ pc = "report"
    /\ report' = generate_verification_report(verification_results)
    /\ pc' = "done"
    /\ UNCHANGED <<creators, evidence, platforms, now, idx, verification_results,
                   result, previous, bio, verification_scores, aggregate>>
    /\ UNCHANGED metricsVars

Next == AuditStep \/ AuditReturn \/ GenerateReport

Spec == Init /\ [][Next]_vars

-----------------------------------------------------------------------------
(* main() on larger batches: three creators, one per region value, with    *)
(* little evidence; an id may be listed more than once.                    *)

BatchCreatorRows ==
    {CreatorRow("c1", "NE"), CreatorRow("c2", "IA"), CreatorRow("c3", "Undetermined")}

BatchEvidenceKinds ==
    << EvidenceRow("c1", "geotag", "Omaha", 15),
       EvidenceRow("c2", "registry", "Acme LLC (IA)", 15),
       EvidenceRow("c3", "collaboration", "Lincoln expo", 10) >>

BatchPlatformKinds ==
    << PlatformRow("c1", "Omaha_NE", "linktr.ee/omaha") >>

InitBatch ==
    /\ creators \in SeqsUpTo(BatchCreatorRows, MaxBatch)
    /\ evidence \in SortedTables(BatchEvidenceKinds, MaxEvidence)
    /\ platforms \in SortedTables(BatchPlatformKinds, MaxPlatforms)
    /\ now = ClockDays[1]
    /\ pc = "audit"
    /\ idx = 0
    /\ verification_results = <<>>
    /\ report = NoValue
    /\ result = NoValue
    /\ previous = NoValue
    /\ bio = NoText
    /\ verification_scores = <<>>
    /\ aggregate = NoValue
    /\ MetricsIdle

SpecBatch == InitBatch /\ [][Next]_vars

-----------------------------------------------------------------------------
(* main() on a creator with anything from no evidence at all to the most   *)
(* evidence every extractor rewards.                                       *)

FullCreatorTables ==
    { <<CreatorRow("c1", "NE")>>, <<CreatorRow("c1", "IA")>>,
      <<CreatorRow("c1", "NE"), CreatorRow("c2", "Undetermined")>> }

Copies(row, n) == [i \in 1..n |-> row]

\* the i-th platform row of c1: one base handle, a link hub on the first two
FullPlatformRow(i) ==
    PlatformRow("c1",
                IF i = 1 THEN "omaha_nebraska" ELSE "Omaha_Nebraska_official",
                IF i <= 2 THEN "linktr.ee/omaha" ELSE "None")

\* the i-th platform row of a c1 whose handles have nothing in common
UnrelatedHandles == <<"wren", "finch", "robin", "heron", "crane", "egret", "stork">>
UnrelatedPlatformRow(i) == PlatformRow("c1", UnrelatedHandles[i], "None")

InitFull ==
    /\ creators \in FullCreatorTables
    /\ \E g \in 0..MaxSignalRows, r \in 0..1, c \in 0..MaxSignalRows :
          evidence = Copies(EvidenceRow("c1", "geotag", "Omaha", 15), g)
                     \o Copies(EvidenceRow("c1", "registry", "Acme LLC (NE)", 15), r)
                     \o Copies(EvidenceRow("c1", "collaboration", "Lincoln expo", 10), c)
    /\ \E p \in 0..MaxSignalRows :
          \/ platforms = [i \in 1..p |-> FullPlatformRow(i)]
          \/ platforms = [i \in 1..p |-> UnrelatedPlatformRow(i)]
    /\ now = ClockDays[1]
    /\ pc = "audit"
    /\ idx = 0
    /\ verification_results = <<>>
    /\ report = NoValue
    /\ result = NoValue
    /\ previous = NoValue
    /\ bio = NoText
    /\ verification_scores = <<>>
    /\ aggregate = NoValue
    /\ MetricsIdle

SpecFull == InitFull /\ [][Next]_vars

-----------------------------------------------------------------------------
(* Single lookups: a caller invokes verify_creator on loaded data, again   *)
(* and again, while time passes.                                           *)

LookupCreatorRows == {CreatorRow("c1", "NE"), CreatorRow("c2", "Undetermined")}

LookupEvidenceKinds ==
    << EvidenceRow("c1", "geotag", "Omaha", 15),
       EvidenceRow("c1", "registry", "Acme LLC (NE)", 15),
       EvidenceRow("c2", "geotag", "Ames", 15),
       EvidenceRow("c2", "collaboration", "Lincoln expo", 15) >>

LookupPlatformRows ==
    {PlatformRow("c1", "Omaha_NE", "linktr.ee/omaha"),
     PlatformRow("c2", "bird_official", "None")}

\* the ids a caller asks for: two that may be in the table, one that never is
LookupIds == {"c1", "c2", "c9"}

InitLookup ==
    /\ creators \in SeqsUpTo(LookupCreatorRows, MaxCreators)
    /\ evidence \in SortedTables(LookupEvidenceKinds, MaxEvidence)
    /\ platforms \in SeqsUpTo(LookupPlatformRows, MaxPlatforms)
    /\ now = ClockDays[1]
    /\ pc = "lookup"
    /\ idx = 0
    /\ verification_results = <<>>
    /\ report = NoValue
    /\ result = NoValue
    /\ previous = NoValue
    /\ bio = NoText
    /\ verification_scores = <<>>
    /\ aggregate = NoValue
    /\ MetricsIdle

\* time passes between calls
Tick ==
    /\ \E i \in 1..(Len(ClockDays) - 1) : now = ClockDays[i] /\ now' = ClockDays[i + 1]
    /\ UNCHANGED <<creators, evidence, platforms, pc, idx, verification_results,
                   report, result, previous, bio, verification_scores, aggregate>>
    /\ UNCHANGED metricsVars

\* a call that writes its outcome into the record returned before
Lookup_inPlace(creator_id) ==
    /\ pc = "lookup"
    /\ result' = [creator_id |-> creator_id,
                  out |-> verify_creator(creator_id, Data, now)]
    /\ previous' = IF result # NoValue /\ result.creator_id = creator_id
                   THEN result' ELSE NoValue
    /\ UNCHANGED <<creators, evidence, platforms, now, pc, idx, verification_results,
                   report, bio, verification_scores, aggregate>>
    /\ UNCHANGED metricsVars

\* result = checker.verify_creator(creator_id, data)
Lookup(creator_id) ==
    /\ pc = "lookup"
    /\ result' = [creator_id |-> creator_id,
                  out |-> verify_creator(creator_id, Data, now)]
    /\ previous' = IF result # NoValue /\ result.creator_id = creator_id
                   THEN result ELSE NoValue
    /\ UNCHANGED <<creators, evidence, platforms, now, pc, idx, verification_results,
                   report, bio, verification_scores, aggregate>>
    /\ UNCHANGED metricsVars

NextLookup == Tick \/ \E c \in LookupIds : Lookup(c)

SpecLookup == InitLookup /\ [][NextLookup]_vars
-----------------------------------------------------------------------------
(* Direct calls of calculate_overall_confidence on a score dictionary the  *)
(* caller built: any keys, any numbers.                                    *)

\* a dictionary item
Item(t, score) == [type |-> t, score |-> score, notes |-> "supplied by caller"]

\* the dictionary holding v[t] under each type t of the sequence order that
\* v has a value for, in that order
DictOf(order, v) ==
    LET present == SelectSeq(order, LAMBDA t : t \in DOMAIN v)
    IN  [i \in 1..Len(present) |-> Item(present[i], v[present[i]])]

\* what the caller may pass: every signal the same value, across the
\* thresholds; or any mix of a few values, keys missing, an unknown key
UniformScores == {-10000, 0, 2499, 2500, 4999, 5000, 7499, 7500, 10000, 20000}
MixedScores == {-10000, 0, 7500, 20000}

\* the sub-scores of the worked example: 0.8, 0.6, 0.9, 0.4, 0.3
ExampleScores ==
    [bio_location |-> 8000, geotag_consistency |-> 6000,
     business_registration |-> 9000, collaboration_evidence |-> 4000,
     platform_consistency |-> 3000]

CallerOrder == verification_types \o <<"press_interview">>

ScoreDicts ==
    {DictOf(verification_types, [t \in DOMAIN weights |-> u]) : u \in UniformScores}
    \cup UNION {{DictOf(CallerOrder, v) : v \in [keys -> MixedScores]} :
                  keys \in SUBSET (DOMAIN weights \cup {"press_interview"})}
    \cup {DictOf(verification_types, ExampleScores)}

InitCalc ==
    /\ creators = <<>>
    /\ evidence = <<>>
    /\ platforms = <<>>
    /\ now = ClockDays[1]
    /\ pc = "calc"
    /\ idx = 0
    /\ verification_results = <<>>
    /\ report = NoValue
    /\ result = NoValue
    /\ previous = NoValue
    /\ bio = NoText
    /\ verification_scores \in ScoreDicts
    /\ aggregate = NoValue
    /\ MetricsIdle

\* checker.calculate_overall_confidence(verification_scores, creator_state)
Calculate ==
    /\ pc = "calc"
    /\ aggregate = NoValue
    /\ \E st \in {"NE", "Undetermined"} :
          aggregate' = calculate_overall_confidence(verification_scores, st)
    /\ UNCHANGED <<creators, evidence, platforms, now, pc, idx, verification_results,
                   report, result, previous, bio, verification_scores>>
    /\ UNCHANGED metricsVars

NextCalc == Calculate

SpecCalc == InitCalc /\ [][NextCalc]_vars
-----------------------------------------------------------------------------
(* Direct calls of the five extractors for creator c1, on tables that hold *)
(* one signal's records (and another creator's), or on a bio.              *)

GeotagKinds ==
    << EvidenceRow("c1", "geotag", "Omaha", 15),
       EvidenceRow("c1", "geotag", "Old Market", 10),
       EvidenceRow("c1", "geotag", "Lincoln", 120),     \* dated after every clock value
       EvidenceRow("c2", "geotag", "Ames", 100) >>

RegistryKinds ==
    << EvidenceRow("c1", "registry", "Acme LLC (ne)", 10),
       EvidenceRow("c1", "registry", "Iowa (IA) Corp", 10),
       EvidenceRow("c1", "registry", NoText, 10),
       EvidenceRow("c2", "registry", "NE Holdings", 10) >>

CollaborationKinds ==
    << EvidenceRow("c1", "collaboration", "Omaha club night", 10),
       EvidenceRow("c1", "collaboration", "DSM expo", 10),
       EvidenceRow("c1", "collaboration", NoText, 10),
       EvidenceRow("c2", "collaboration", "Omaha", 10) >>

PlatformKinds ==
    << PlatformRow("c1", "Bird", "linktr.ee/bird"),
       PlatformRow("c1", "bird_official", "None"),
       PlatformRow("c1", "Omaha_NE", ""),
       PlatformRow("c1", "ames-fans", NoText),
       PlatformRow("c1", "dsm_iowa", "beacons.ai/dsm"),
       PlatformRow("c2", "bird", "linktr.ee/b2") >>

BioTexts ==
    {NoText, "", "Omaha, NE", "Lincoln", "Des Moines, Iowa", "Ames",
     "hello world", "Ames and Omaha", "DSM, Iowa; Kearney",
     " ", "Omaha then DSM, Iowa"}

CreatorStates == {"NE", "IA", "Undetermined"}

InitSignals ==
    /\ creators \in {<<CreatorRow("c1", st)>> : st \in CreatorStates}
    /\ \/ /\ evidence \in SortedTables(GeotagKinds, MaxSignalRows)
             \cup SortedTables(RegistryKinds, MaxSignalRows)
             \cup SortedTables(CollaborationKinds, MaxSignalRows)
          /\ platforms = <<>>
          /\ bio = NoText
       \/ /\ evidence = <<>>
          /\ platforms \in SortedTables(PlatformKinds, MaxSignalRows)
          /\ bio = BioText(RowsOf(platforms, "c1"))
       \/ /\ evidence = <<>>
          /\ platforms = <<>>
          /\ bio \in BioTexts
    /\ now \in {ClockDays[i] : i \in 1..Len(ClockDays)}
    /\ pc = "signals"
    /\ idx = 0
    /\ verification_results = <<>>
    /\ report = NoValue
    /\ result = NoValue
    /\ previous = NoValue
    /\ verification_scores = <<>>
    /\ aggregate = NoValue
    /\ MetricsIdle

\* the call of one extractor, with the arguments verify_creator would pass
CallExtractor(t, creator_id, creator_state) ==
    IF t = "bio_location" THEN verify_bio_location(bio, creator_state)
    ELSE IF t = "geotag_consistency"
    THEN verify_geotag_consistency(creator_id, evidence, now)
    ELSE IF t = "business_registration"
    THEN verify_business_registration(creator_id, evidence, creator_state)
    ELSE IF t = "collaboration_evidence"
    THEN verify_collaboration_evidence(creator_id, evidence, creator_state)
    ELSE verify_platform_consistency(creator_id, platforms)

Extract(t) ==
    /\ pc = "signals"
    /\ result' = [creator_id |-> "c1", type |-> t,
                  out |-> CallExtractor(t, "c1", creators[1].state)]
    /\ UNCHANGED <<creators, evidence, platforms, now, pc, idx, verification_results,
                   report, previous, bio, verification_scores, aggregate>>
    /\ UNCHANGED metricsVars

NextSignals == \E i \in 1..Len(verification_types) : Extract(verification_types[i])

SpecSignals == InitSignals /\ [][NextSignals]_vars
-----------------------------------------------------------------------------
(* Metrics calculator (metrics_calculator.py).  Footprints are kept in     *)
(* millionths, logarithms and rates in ten-thousandths, platform weights   *)
(* in hundredths and the tier composite in ten-millionths.                 *)

\* a numeric cell of a table: a number, or NaN where the file has no value
Num(n) == [num |-> n]
NaNCell == [nan |-> TRUE]
IsNum(cell) == "num" \in DOMAIN cell

platform_weights ==
    [X |-> 80, Instagram |-> 90, TikTok |-> 85, Reddit |-> 60, OnlyFans |-> 40,
     Fansly |-> 40, ManyVids |-> 30, YouTube |-> 70, Twitch |-> 50]

\* a platform missing from the table weighs nothing
PlatformWeight_unlisted(platform_name) ==
    IF platform_name \in DOMAIN platform_weights THEN platform_weights[platform_name]
    ELSE 0

\* self.platform_weights.get(platform_name, 0.5)
PlatformWeight(platform_name) ==
    IF platform_name \in DOMAIN platform_weights THEN platform_weights[platform_name]
    ELSE 50

\* math.log(1 + followers), rounded to four decimals, for the follower counts
\* the explored tables hold
LogTable ==
    (1 :> 6931) @@ (9 :> 23026) @@ (99 :> 46052) @@ (1000 :> 69088)
    @@ (50000 :> 108198)

\* for _, platform in creator_platforms.iterrows(): if followers > 0: footprint += ...
\* (NaN > 0 is False)
RECURSIVE calculate_footprint_score(_)
calculate_footprint_score(creator_platforms) ==
    IF Len(creator_platforms) = 0 THEN 0
    ELSE LET platform == creator_platforms[Len(creator_platforms)]
             followers == platform.followers_count
             weight == PlatformWeight(platform.platform)
             rest == calculate_footprint_score(
                         SubSeq(creator_platforms, 1, Len(creator_platforms) - 1))
         IN  IF IsNum(followers) /\ followers.num > 0
             THEN rest + LogTable[followers.num] * weight
             ELSE rest

\* str(cell).lower(): a missing cell prints as nan
StrLower(cell) == IF cell = NoText THEN "nan" ELSE Lower(cell)

RECURSIVE SumCounts(_)
SumCounts(counts) ==
    IF Len(counts) = 0 THEN 0 ELSE Head(counts) + SumCounts(Tail(counts))

calculate_integration_score(creator_platforms) ==
    LET total_platforms == Len(creator_platforms)
        \* notna().sum() + ne('').sum() + ne('None').sum(): three counts added up
        linked_platforms ==
            Len(SelectSeq(creator_platforms, LAMBDA p : p.linked_hub # NoText))
            + Len(SelectSeq(creator_platforms, LAMBDA p : p.linked_hub # ""))
            + Len(SelectSeq(creator_platforms, LAMBDA p : p.linked_hub # "None"))
        \* per platform, the other platforms whose handle occurs in its url or handle
        cross_links ==
            SumCounts([i \in 1..total_platforms |->
                LET platform == creator_platforms[i]
                    url == StrLower(platform.url)
                    handle == StrLower(platform.handle)
                    other_platforms ==
                        SelectSeq(creator_platforms,
                                  LAMBDA o : o.platform # platform.platform)
                IN  Len(SelectSeq(other_platforms,
                                  LAMBDA other :
                                      \/ Contains(url, StrLower(other.handle))
                                      \/ Contains(handle, StrLower(other.handle))))])
        total_links == linked_platforms + cross_links
    IN  IF total_platforms <= 1 THEN 0
        ELSE IF total_links >= total_platforms THEN 10000
        ELSE (total_links * 10000) \div total_platforms

\* a call that returns a value (where another outcome of it is an exception)
Returned(v) == [value |-> v]

\* business_data.get(key): None when the key is missing
Get(business_data, key) ==
    IF key \in DOMAIN business_data THEN business_data[key] ELSE NoText

\* Python truth of a cell: None and '' are false; a text and NaN are true
Truthy(cell) == cell # NoText /\ cell # ""

\* str.strip() leaves something
RECURSIVE StripsToText(_)
StripsToText(s) ==
    IF Len(s) = 0 THEN FALSE
    ELSE IF SubSeq(s, 1, 1) # " " THEN TRUE
    ELSE StripsToText(SubSeq(s, 2, Len(s)))

\* the five checks in their order; a check on a NaN cell that calls a str
\* operation raises, and the later checks are not reached
calculate_business_presence_index(business_data) ==
    LET business_entity == Get(business_data, "business_entity")
        booking_email == Get(business_data, "booking_email")
        agency_affiliation == Get(business_data, "agency_affiliation")
        shopfronts == Get(business_data, "shopfronts")
        pricing_visible == Get(business_data, "pricing_visible")
        entity == IF Truthy(business_entity)
                     /\ business_entity \notin {"Unknown", "NotApplicable", ""}
                  THEN 1 ELSE 0
        email == IF Truthy(booking_email) /\ Contains(booking_email, "@")
                 THEN 1 ELSE 0
        agency == IF Truthy(agency_affiliation) /\ StripsToText(agency_affiliation)
                  THEN 1 ELSE 0
        shop == IF Truthy(shopfronts) /\ StripsToText(shopfronts) THEN 1 ELSE 0
        pricing == IF Truthy(pricing_visible) /\ pricing_visible \in {"Yes", "Partial"}
                   THEN 1 ELSE 0
    IN  IF booking_email = NaN THEN Raised("TypeError")       \* '@' in nan
        ELSE IF agency_affiliation = NaN \/ shopfronts = NaN
        THEN Raised("AttributeError")                        \* nan.strip()
        ELSE Returned(entity + email + agency + shop + pricing)

\* the thresholds taken as exclusive lower bounds
calculate_creator_tier_exclusive(footprint_score, avg_engagement, bpi) ==
    LET composite_score == 4 * footprint_score + 30000 * avg_engagement
                             + 60000000 * bpi
    IN  IF composite_score > 1500000000 THEN "Top"
        ELSE IF composite_score > 800000000 THEN "Macro"
        ELSE IF composite_score > 300000000 THEN "Mid"
        ELSE IF composite_score > 50000000 THEN "Micro"
        ELSE "Undetermined"

\* composite_score = footprint_score*0.4 + avg_engagement*100*0.3 + bpi*20*0.3
calculate_creator_tier(footprint_score, avg_engagement, bpi) ==
    LET composite_score == 4 * footprint_score + 30000 * avg_engagement
                             + 60000000 * bpi
    IN  IF composite_score >= 1500000000 THEN "Top"
        ELSE IF composite_score >= 800000000 THEN "Macro"
        ELSE IF composite_score >= 300000000 THEN "Mid"
        ELSE IF composite_score >= 50000000 THEN "Micro"
        ELSE "Undetermined"

\* Engagement rates are in ten-thousandths.  None is NoValue; a float result
\* is a numeric cell, NaN included.
\* (likes + comments) / followers, capped at 1.0 by min(engagement, 1.0);
\* with followers NaN neither nan <= 0 nor 1.0 < nan holds and NaN is returned
calculate_engagement_rate(likes, comments, followers) ==
    IF IsNum(followers) /\ followers.num <= 0 THEN NoValue
    ELSE IF ~IsNum(likes) \/ ~IsNum(comments) THEN NoValue
    ELSE IF ~IsNum(followers) THEN NaNCell
    ELSE LET engagement == ((likes.num + comments.num) * 10000) \div followers.num
         IN  Num(IF engagement < 10000 THEN engagement ELSE 10000)

\* np.mean of a list of floats: NaN as soon as one of them is NaN
NpMean(values) ==
    IF \E i \in 1..Len(values) : ~IsNum(values[i]) THEN NaNCell
    ELSE Num(SumOf(values, "num") \div Len(values))

\* process_creator_metrics: the rates of the creator's metrics rows that are
\* not None, averaged; 0.0 when there is none
avg_engagement_rate(creator_metrics) ==
    LET ers == [i \in 1..Len(creator_metrics) |->
                  calculate_engagement_rate(creator_metrics[i].avg_likes_post,
                                            creator_metrics[i].avg_comments_post,
                                            creator_metrics[i].followers)]
        engagement_rates == SelectSeq(ers, LAMBDA er : er # NoValue)
    IN  IF Len(engagement_rates) > 0 THEN NpMean(engagement_rates) ELSE Num(0)

\* creator_business.iloc[0].to_dict() if not creator_business.empty else {}
BusinessData(creator_id, business_table) ==
    LET creator_business == RowsOf(business_table, creator_id)
    IN  IF Len(creator_business) = 0 THEN <<>> ELSE creator_business[1]

-----------------------------------------------------------------------------
(* Specification SpecMetrics: the functions of the metrics calculator      *)
(* called on one creator's platform rows, on a business dictionary and on  *)
(* tier arguments.                                                         *)

MetricsPlatformRow(c, p, h, u, hub, f) ==
    [creator_id |-> c, platform |-> p, handle |-> h, url |-> u, linked_hub |-> hub,
     followers_count |-> f]

\* platforms.csv rows of creator c1: a hub, no hub, 'None', an unlisted platform,
\* zero, negative and missing follower counts, a handle occurring in another's
MetricsPlatformKinds ==
    << MetricsPlatformRow("c1", "X", "bird", "x.com/bird", "linktr.ee/bird", Num(1000)),
       MetricsPlatformRow("c1", "Instagram", "Bird_ig", NoText, NoText, Num(0)),
       MetricsPlatformRow("c1", "Twitch", "wren", "twitch.tv/wren", "None", Num(1000)),
       MetricsPlatformRow("c1", "Mastodon", "finch", NoText, NoText, Num(99)),
       MetricsPlatformRow("c1", "Fansly", "crane", NoText, NoText, NaNCell),
       MetricsPlatformRow("c1", "Reddit", "robin", NoText, NoText, Num(-5)),
       MetricsPlatformRow("c1", "YouTube", "heron", NoText, NoText, Num(9)) >>

MetricRow(c, p, day, f, likes, comments) ==
    [creator_id |-> c, platform |-> p, snapshot_date |-> day, followers |-> f,
     avg_likes_post |-> likes, avg_comments_post |-> comments]

\* metrics.csv rows of creator c1: a rate of 0.05, a rate capped at 1.0, zero,
\* negative and missing followers, missing likes
MetricKinds ==
    << MetricRow("c1", "X", 10, Num(1000), Num(40), Num(10)),
       MetricRow("c1", "Instagram", 10, Num(10), Num(50), Num(0)),
       MetricRow("c1", "Twitch", 10, Num(0), Num(5), Num(1)),
       MetricRow("c1", "Reddit", 10, Num(-5), Num(5), Num(1)),
       MetricRow("c1", "YouTube", 10, Num(100), NaNCell, Num(1)),
       MetricRow("c1", "Fansly", 10, NaNCell, Num(10), Num(2)) >>

BusinessFields ==
    {"business_entity", "booking_email", "agency_affiliation", "shopfronts",
     "pricing_visible"}

\* dictionaries a caller builds: texts, empty and blank texts, None
CallerBusinessDicts ==
    [business_entity : {"Acme LLC", "Unknown", "NotApplicable", "", " ", NoText},
     booking_email : {"a@b.com", "ask me", ""},
     agency_affiliation : {"Agency X", "", "  "},
     shopfronts : {"Etsy", " ", NoText},
     pricing_visible : {"Yes", "Partial", "No", ""}]

\* the dictionary restricted to some of its keys
Restrict(d, keys) == [k \in keys |-> d[k]]

\* business.csv rows as read_csv returns them: an empty cell is NaN
BusinessRows ==
    [creator_id : {"c1"},
     business_entity : {"Acme LLC", "Unknown", NaN},
     booking_email : {"a@b.com", NaN},
     agency_affiliation : {"Agency X", NaN},
     shopfronts : {"Etsy", NaN},
     pricing_visible : {"Partial", "No", NaN}]

\* footprint scores around the tier thresholds (150, 80, 30, 5 and 0.001 below)
TierFootprints ==
    {0, 12497500, 12500000, 74997500, 75000000, 199997500, 200000000,
     374997500, 375000000}
TierEngagements == {0, 500, 10000}
TierIndexes == 0..5

InitMetrics ==
    /\ creators = <<>>
    /\ evidence = <<>>
    /\ now = ClockDays[1]
    /\ pc = "metrics"
    /\ idx = 0
    /\ verification_results = <<>>
    /\ report = NoValue
    /\ result = NoValue
    /\ previous = NoValue
    /\ bio = NoText
    /\ verification_scores = <<>>
    /\ aggregate = NoValue
    /\ metrics = NoValue
    /\ SaveIdle
    /\ ValidatorIdle
    /\ \/ /\ platforms \in SortedTables(MetricsPlatformKinds, MaxSignalRows)
          /\ business = <<>>
          /\ tier_args = NoValue
          /\ metric_rows = <<>>
       \/ /\ platforms = <<>>
          /\ business = <<>>
          /\ tier_args = NoValue
          /\ metric_rows \in SortedTables(MetricKinds, MaxSignalRows) \ {<<>>}
       \/ /\ platforms = <<>>
          /\ metric_rows = <<>>
          /\ business \in
                CallerBusinessDicts
                \cup {Restrict(d, keys) :
                        d \in {b \in CallerBusinessDicts : b.business_entity = "Acme LLC"},
                        keys \in {{}, BusinessFields \ {"shopfronts", "pricing_visible"}}}
                \cup {BusinessData("c1", <<row>>) : row \in BusinessRows}
          /\ tier_args = NoValue
       \/ /\ platforms = <<>>
          /\ business = <<>>
          /\ metric_rows = <<>>
          /\ tier_args \in [footprint_score : TierFootprints,
                            avg_engagement : TierEngagements, bpi : TierIndexes]

\* metrics['footprint_score'] = self.calculate_footprint_score(creator_platforms)
Footprint ==
    /\ pc = "metrics"
    /\ metrics' = [fn |-> "calculate_footprint_score",
                   out |-> calculate_footprint_score(RowsOf(platforms, "c1"))]
    /\ UNCHANGED <<creators, evidence, platforms, now, pc, idx, verification_results,
                   report, result, previous, bio, verification_scores, aggregate,
                   business, tier_args, metric_rows, all_creator_metrics,
                   calculated_metrics, validation_errors, validation_warnings, reports>>

\* metrics['integration_score'] = self.calculate_integration_score(creator_platforms)
Integration ==
    /\ pc = "metrics"
    /\ metrics' = [fn |-> "calculate_integration_score",
                   out |-> calculate_integration_score(RowsOf(platforms, "c1"))]
    /\ UNCHANGED <<creators, evidence, platforms, now, pc, idx, verification_results,
                   report, result, previous, bio, verification_scores, aggregate,
                   business, tier_args, metric_rows, all_creator_metrics,
                   calculated_metrics, validation_errors, validation_warnings, reports>>

\* metrics['business_presence_index'] = self.calculate_business_presence_index(business_data)
PresenceIndex ==
    /\ pc = "metrics"
    /\ metrics' = [fn |-> "calculate_business_presence_index",
                   out |-> calculate_business_presence_index(business)]
    /\ UNCHANGED <<creators, evidence, platforms, now, pc, idx, verification_results,
                   report, result, previous, bio, verification_scores, aggregate,
                   business, tier_args, metric_rows, all_creator_metrics,
                   calculated_metrics, validation_errors, validation_warnings, reports>>

\* self.calculate_creator_tier(footprint_score, avg_engagement, bpi)
Tier ==
    /\ pc = "metrics"
    /\ tier_args # NoValue
    /\ metrics' = [fn |-> "calculate_creator_tier",
                   out |-> calculate_creator_tier(tier_args.footprint_score,
                                                  tier_args.avg_engagement,
                                                  tier_args.bpi)]
    /\ UNCHANGED <<creators, evidence, platforms, now, pc, idx, verification_results,
                   report, result, previous, bio, verification_scores, aggregate,
                   business, tier_args, metric_rows, all_creator_metrics,
                   calculated_metrics, validation_errors, validation_warnings, reports>>

\* metrics['avg_engagement_rate'] = np.mean(engagement_rates) if engagement_rates else 0.0
Engagement ==
    /\ pc = "metrics"
    /\ metrics' = [fn |-> "avg_engagement_rate",
                   out |-> avg_engagement_rate(RowsOf(metric_rows, "c1"))]
    /\ UNCHANGED <<creators, evidence, platforms, now, pc, idx, verification_results,
                   report, result, previous, bio, verification_scores, aggregate,
                   business, tier_args, metric_rows, all_creator_metrics,
                   calculated_metrics, validation_errors, validation_warnings, reports>>

NextMetrics == Footprint \/ Integration \/ PresenceIndex \/ Tier \/ Engagement

SpecMetrics == InitMetrics /\ [][NextMetrics]_vars

-----------------------------------------------------------------------------
(* Properties of the aggregator.                                           *)

RECURSIVE SumWeights(_)
SumWeights(types) ==
    IF types = {} THEN 0
    ELSE LET t == CHOOSE x \in types : TRUE
         IN  weights[t] + SumWeights(types \ {t})

\* C1: the overall_confidence of every verify_creator result lies in [0,1]
\* (0..1000000 in fixed point), and the weight table sums to exactly 1.0
\* (100 in hundredths) with the five weights 0.30, 0.25, 0.20, 0.15, 0.10.
C1_CompositeInUnitInterval ==
    /\ SumWeights(DOMAIN weights) = 100
    /\ weights = [business_registration |-> 30, bio_location |-> 25,
                  geotag_consistency |-> 20, collaboration_evidence |-> 15,
                  platform_consistency |-> 10]
    /\ (result # NoValue /\ IsScored(result.out)) =>
          /\ result.out.overall_confidence >= 0
          /\ result.out.overall_confidence <= 1000000

\* a lookup scored a creator at Medium or above
C1_Witness ==
    /\ result # NoValue
    /\ IsScored(result.out)
    /\ result.out.overall_confidence >= 500000

\* C2: the level is a total function of the composite with inclusive lower
\* bounds: >= 0.75 High, [0.50, 0.75) Medium, [0.25, 0.50) Low, anything else
\* (0 included) Undetermined; exactly 0.75 is High and 0.7499 is Medium.
C2_LevelLadder ==
    aggregate # NoValue =>
      LET c == aggregate.overall_confidence
          l == aggregate.confidence_level
      IN  /\ l \in {"High", "Medium", "Low", "Undetermined"}
          /\ (l = "High") <=> (c >= 750000)
          /\ (l = "Medium") <=> (500000 <= c /\ c < 750000)
          /\ (l = "Low") <=> (250000 <= c /\ c < 500000)
          /\ (l = "Undetermined") <=> (c < 250000)
          /\ (c = 0) => (l = "Undetermined")
          /\ (c = 749900) => (l = "Medium")

\* a composite of exactly 0.75 was classified, as High
C2_Witness ==
    /\ aggregate # NoValue
    /\ aggregate.overall_confidence = 750000
    /\ aggregate.confidence_level = "High"

\* the weights the specification fixes, in hundredths; no weight for a type
\* outside the table
FixedWeight(t) ==
    CASE t = "business_registration" -> 30
      [] t = "bio_location" -> 25
      [] t = "geotag_consistency" -> 20
      [] t = "collaboration_evidence" -> 15
      [] t = "platform_consistency" -> 10
      [] OTHER -> 0

RECURSIVE WeightedSum(_)
WeightedSum(scores) ==
    IF Len(scores) = 0 THEN 0
    ELSE scores[1].score * FixedWeight(scores[1].type) + WeightedSum(Tail(scores))

RECURSIVE SumField(_, _)
SumField(seq, f) == IF Len(seq) = 0 THEN 0 ELSE seq[1][f] + SumField(Tail(seq), f)

\* C3: the composite is min(1.0, sum of score x weight) with the fixed
\* weights; each breakdown entry's contribution is its score times its
\* weight; the contributions sum to the composite whenever the cap does not
\* apply; scores 0.9, 0.8, 0.6, 0.4, 0.3 give 0.68, classified Medium.
C3_CompositeIsCappedWeightedSum ==
    aggregate # NoValue =>
      LET total == WeightedSum(verification_scores)
          b == aggregate.breakdown
      IN  /\ aggregate.overall_confidence = (IF total < 1000000 THEN total ELSE 1000000)
          /\ Len(b) = Len(verification_scores)
          /\ \A i \in 1..Len(b) :
                /\ b[i].type = verification_scores[i].type
                /\ b[i].score = verification_scores[i].score
                /\ b[i].weight = FixedWeight(b[i].type)
                /\ b[i].contribution = b[i].score * b[i].weight
          /\ (total <= 1000000) => (SumField(b, "contribution") = aggregate.overall_confidence)
          /\ (verification_scores = DictOf(verification_types, ExampleScores)) =>
                /\ aggregate.overall_confidence = 680000
                /\ aggregate.confidence_level = "Medium"

\* the worked example was aggregated
C3_Witness ==
    /\ aggregate # NoValue
    /\ verification_scores = DictOf(verification_types, ExampleScores)
    /\ aggregate.overall_confidence = 680000

\* clipping a score to [0,1]
ClipScore(x) == IF x < 0 THEN 0 ELSE IF x > 10000 THEN 10000 ELSE x

RECURSIVE ClippedWeightedSum(_)
ClippedWeightedSum(scores) ==
    IF Len(scores) = 0 THEN 0
    ELSE ClipScore(scores[1].score) * FixedWeight(scores[1].type)
            + ClippedWeightedSum(Tail(scores))

\* C8: a score outside [0,1] that reaches the aggregator is clipped to the
\* nearest bound before use, so for arbitrary input scores the composite is in
\* [0,1] (and equals the weighted sum of the clipped scores).
C8_OutOfRangeScoresClipped ==
    aggregate # NoValue =>
      /\ aggregate.overall_confidence >= 0
      /\ aggregate.overall_confidence <= 1000000
      /\ aggregate.overall_confidence = ClippedWeightedSum(verification_scores)
-----------------------------------------------------------------------------
(* Saving the calculated metrics.                                          *)

\* hashlib.sha256(content.encode()).hexdigest() of the contents the explored
\* handles and platforms give
Sha256Hex ==
    ("bird@x" :> "1ee077d55347040d38b8d63dbfb0aca25e2295fea5200bd58d9d87274695d26a")
    @@ ("wren@twitch" :>
          "b3d931a38dfe4e28caa298e13acd658942c1339ef9af4fb6abd8e48c157bde2c")
    @@ ("finch@instagram" :>
          "4e8680f91e8b18fecb30446dd8b5b0c258ea434dd6b74baf8005cb0d7d5bdf7a")

\* content = f"{handle}@{platform}".lower(); the SHA-256 hex digest of it
extract_creator_id(handle, platform) == Sha256Hex[Lower(handle \o "@" \o platform)]

\* d.get(key, default) of a dictionary held as a record
GetOr(d, key, default) == IF key \in DOMAIN d THEN d[key] ELSE default

\* the output row of one creator: nine fixed columns, then one column per
\* platform of engagement_rates_by_platform and of growth_rates_by_platform
MetricsOutputRow(creator_id, creator_metrics) ==
    LET er == GetOr(creator_metrics, "engagement_rates_by_platform", <<>>)
        gr == GetOr(creator_metrics, "growth_rates_by_platform", <<>>)
    IN  [creator_id |-> creator_id,
         footprint_score |-> GetOr(creator_metrics, "footprint_score", 0),
         integration_score |-> GetOr(creator_metrics, "integration_score", 0),
         business_presence_index |->
            GetOr(creator_metrics, "business_presence_index", 0),
         avg_engagement_rate |-> GetOr(creator_metrics, "avg_engagement_rate", 0),
         avg_growth_rate |-> GetOr(creator_metrics, "avg_growth_rate", 0),
         estimated_tier |-> GetOr(creator_metrics, "estimated_tier", "Undetermined"),
         platform_count |-> GetOr(creator_metrics, "platform_count", 0),
         total_followers |-> GetOr(creator_metrics, "total_followers", 0)]
        @@ [c \in {"engagement_rate_" \o Lower(p) : p \in DOMAIN er} |->
              er[CHOOSE p \in DOMAIN er : c = "engagement_rate_" \o Lower(p)]]
        @@ [c \in {"growth_rate_" \o Lower(p) : p \in DOMAIN gr} |->
              gr[CHOOSE p \in DOMAIN gr : c = "growth_rate_" \o Lower(p)]]

\* metrics_dict is the dictionary as its items, in insertion order.  The loop
\* skips every key that does not contain the text 'creators'; on a key that is
\* not a text (NaN) the test raises.  The file is written when a row is left.
save_calculated_metrics(metrics_dict) ==
    LET kept == SelectSeq(metrics_dict, LAMBDA item : Contains(item.creator_id, "creators"))
        metrics_list == [i \in 1..Len(kept) |->
                           MetricsOutputRow(kept[i].creator_id, kept[i].creator_metrics)]
    IN  IF \E i \in 1..Len(metrics_dict) : metrics_dict[i].creator_id = NaN
        THEN Raised("TypeError")
        ELSE IF Len(metrics_list) > 0 THEN [file |-> metrics_list]
        ELSE [warning |-> "No metrics to save"]

MaxSaved == 3         \* creators in the dictionary handed to save_calculated_metrics

\* creator ids: of the pipeline, written by hand, and missing
SavedIds ==
    {extract_creator_id("bird", "X"), extract_creator_id("Wren", "Twitch"),
     "creators_001", "c1", NaN}

\* what process_creator_metrics returns: a creator with one platform, and a
\* creator with no row in any table
SavedMetrics ==
    { [avg_engagement_rate |-> 500,
       engagement_rates_by_platform |-> [X |-> 500],
       footprint_score |-> 55270400, integration_score |-> 10000,
       business_presence_index |-> 2, estimated_tier |-> "Mid",
       growth_rates_by_platform |-> [X |-> 1000], avg_growth_rate |-> 1000,
       platform_count |-> 1, platforms |-> <<"X">>, total_followers |-> 1000],
      [avg_engagement_rate |-> 0,
       engagement_rates_by_platform |-> <<>>,
       footprint_score |-> 0, integration_score |-> 0,
       business_presence_index |-> 0, estimated_tier |-> "Undetermined",
       growth_rates_by_platform |-> <<>>, avg_growth_rate |-> 0,
       platform_count |-> 0, platforms |-> <<>>, total_followers |-> 0] }

\* dictionaries: no key twice
MetricsDicts ==
    {d \in SeqsUpTo([creator_id : SavedIds, creator_metrics : SavedMetrics], MaxSaved) :
        \A i, j \in 1..Len(d) : d[i].creator_id = d[j].creator_id => i = j}

InitSave ==
    /\ creators = <<>>
    /\ evidence = <<>>
    /\ platforms = <<>>
    /\ now = ClockDays[1]
    /\ pc = "save"
    /\ idx = 0
    /\ verification_results = <<>>
    /\ report = NoValue
    /\ result = NoValue
    /\ previous = NoValue
    /\ bio = NoText
    /\ verification_scores = <<>>
    /\ aggregate = NoValue
    /\ business = <<>> /\ tier_args = NoValue /\ metrics = NoValue
    /\ metric_rows = <<>>
    /\ ValidatorIdle
    /\ all_creator_metrics \in MetricsDicts
    /\ calculated_metrics = NoValue

\* calculator.save_calculated_metrics(all_creator_metrics)
Save ==
    /\ pc = "save"
    /\ calculated_metrics = NoValue
    /\ calculated_metrics' = save_calculated_metrics(all_creator_metrics)
    /\ UNCHANGED <<creators, evidence, platforms, now, pc, idx, verification_results,
                   report, result, previous, bio, verification_scores, aggregate,
                   business, tier_args, metrics, metric_rows, all_creator_metrics,
                   validation_errors, validation_warnings, reports>>

NextSave == Save

SpecSave == InitSave /\ [][NextSave]_vars

-----------------------------------------------------------------------------
(* src/data_validator.py: DataValidator.run_validation.                    *)
(* The validator reads creators.csv and evidence.csv with further columns: *)
(* a creator row has creator_id, state, verification_level,                *)
(* verification_confidence (in ten-thousandths), first_seen and            *)
(* last_active (days); an evidence row has creator_id, signal_type,        *)
(* description, weight and confidence_impact (in hundredths).              *)
(* platforms.csv, metrics.csv and business.csv hold their header line      *)
(* only, so the checks of their rows find nothing.                         *)

ValidatorCreatorRow(c, st, level, conf, first, last) ==
    [creator_id |-> c, state |-> st, verification_level |-> level,
     verification_confidence |-> conf, first_seen |-> first, last_active |-> last]

ValidatorEvidenceRow(c, t, d, w, impact) ==
    [creator_id |-> c, signal_type |-> t, description |-> d, weight |-> w,
     confidence_impact |-> impact]

\* the state values the validator accepts
valid_states == {"NE", "IA", "Undetermined"}

valid_confidence_levels == {"High", "Medium", "Low", "Undetermined"}

\* f"<what>: {n} records", appended when n > 0
Finding(what, n) ==
    IF n > 0 THEN <<what \o ": " \o ToString(n) \o " records">> ELSE <<>>

DigitChars == {"0", "1", "2", "3", "4", "5", "6", "7", "8", "9"}
UpperChars == DOMAIN LowerChar
LowerChars == {LowerChar[c] : c \in DOMAIN LowerChar}

CharAt(s, i) == IF i >= 1 /\ i <= Len(s) THEN SubSeq(s, i, i) ELSE ""
AllIn(s, i, j, chars) == \A k \in i..j : CharAt(s, k) \in chars

\* r'^[a-f0-9]{64}$' with na=False
IsHexId(id) ==
    /\ id # NaN
    /\ Len(id) = 64
    /\ AllIn(id, 1, 64, DigitChars \cup {"a", "b", "c", "d", "e", "f"})

validate_creator_ids(creators_df) ==
    LET n == Len(creators_df)
        id(i) == creators_df[i].creator_id
        missing_ids == Cardinality({i \in 1..n : id(i) = NaN})
        duplicate_ids == Cardinality({i \in 1..n : \E j \in 1..(i - 1) : id(j) = id(i)})
        invalid_format == Cardinality({i \in 1..n : ~IsHexId(id(i))})
    IN  Finding("Missing creator IDs", missing_ids)
        \o Finding("Duplicate creator IDs", duplicate_ids)
        \o Finding("Invalid creator ID format", invalid_format)

validate_categorical_fields(creators_df) ==
    LET n == Len(creators_df)
        invalid_states ==
            Cardinality({i \in 1..n : creators_df[i].state \notin valid_states})
        invalid_confidence ==
            Cardinality({i \in 1..n :
                           creators_df[i].verification_level \notin valid_confidence_levels})
        invalid_scores ==
            Cardinality({i \in 1..n :
                           \/ creators_df[i].verification_confidence < 0
                           \/ creators_df[i].verification_confidence > 10000})
    IN  Finding("Invalid state values", invalid_states)
        \o Finding("Invalid confidence levels", invalid_confidence)
        \o Finding("Confidence scores out of range", invalid_scores)

\* the foreign keys of the evidence table (the other tables have no row)
validate_data_consistency(creators_df, evidence_df) ==
    LET creator_ids == {creators_df[i].creator_id : i \in 1..Len(creators_df)}
        orphan_evidence ==
            Cardinality({i \in 1..Len(evidence_df) :
                           \/ evidence_df[i].creator_id = NaN
                           \/ evidence_df[i].creator_id \notin creator_ids})
    IN  Finding("Orphan evidence records", orphan_evidence)

\* today = datetime.now(): the dates of the creators (no metrics row)
validate_date_consistency(creators_df, clock) ==
    LET n == Len(creators_df)
        invalid_date_order ==
            Cardinality({i \in 1..n :
                           creators_df[i].first_seen > creators_df[i].last_active})
        future_first_seen == Cardinality({i \in 1..n : creators_df[i].first_seen > clock})
        future_last_active == Cardinality({i \in 1..n : creators_df[i].last_active > clock})
    IN  Finding("Invalid date order (first_seen > last_active)", invalid_date_order)
        \o Finding("Future first_seen dates", future_first_seen)
        \o Finding("Future last_active dates", future_last_active)

validate_evidence_weights(evidence_df) ==
    LET n == Len(evidence_df)
        invalid_weights ==
            Cardinality({i \in 1..n :
                           evidence_df[i].weight < 0 \/ evidence_df[i].weight > 100})
        invalid_impact ==
            Cardinality({i \in 1..n :
                           \/ evidence_df[i].confidence_impact < -100
                           \/ evidence_df[i].confidence_impact > 100})
    IN  Finding("Evidence weights out of range", invalid_weights)
        \o Finding("Confidence impact out of range", invalid_impact)

\* \b of a regular expression, at the position before character p
WordChar(c) == c \in DigitChars \cup UpperChars \cup LowerChars \cup {"_"}
WordBoundary(s, p) == WordChar(CharAt(s, p - 1)) # WordChar(CharAt(s, p))

\* re.search of r'\b\d{a}-\d{b}-\d{4}\b'
MatchesDigitGroups(s, a, b) ==
    \E i \in 1..Len(s) :
       /\ WordBoundary(s, i)
       /\ AllIn(s, i, i + a - 1, DigitChars)
       /\ CharAt(s, i + a) = "-"
       /\ AllIn(s, i + a + 1, i + a + b, DigitChars)
       /\ CharAt(s, i + a + b + 1) = "-"
       /\ AllIn(s, i + a + b + 2, i + a + b + 5, DigitChars)
       /\ WordBoundary(s, i + a + b + 6)

\* re.search of r'\b[A-Za-z0-9._%+-]+@[A-Za-z0-9.-]+\.[A-Z|a-z]{2,}\b'
MatchesEmail(s) ==
    LET alnum == DigitChars \cup UpperChars \cup LowerChars
    IN  \E at \in 2..Len(s) :
           /\ CharAt(s, at) = "@"
           /\ \E a \in 1..(at - 1) :
                 /\ WordBoundary(s, a)
                 /\ AllIn(s, a, at - 1, alnum \cup {".", "_", "%", "+", "-"})
           /\ \E dot \in (at + 2)..Len(s) :
                 /\ CharAt(s, dot) = "."
                 /\ AllIn(s, at + 1, dot - 1, alnum \cup {".", "-"})
                 /\ \E e \in (dot + 2)..Len(s) :
                       /\ AllIn(s, dot + 1, e, UpperChars \cup LowerChars \cup {"|"})
                       /\ WordBoundary(s, e + 1)

StreetWords ==
    {"Street", "St", "Avenue", "Ave", "Road", "Rd", "Boulevard", "Blvd", "Lane",
     "Ln", "Drive", "Dr"}

\* re.search of r'\d+\s+[A-Z][a-z]+\s+(Street|St|...|Dr)'
\* (the only white space of a cell is the blank)
MatchesAddress(s) ==
    \E d \in 1..Len(s) :
       /\ CharAt(s, d) \in DigitChars
       /\ \E u \in (d + 2)..Len(s) :
             /\ CharAt(s, u) \in UpperChars
             /\ AllIn(s, d + 1, u - 1, {" "})
             /\ \E w \in (u + 2)..Len(s) :
                   /\ AllIn(s, u + 1, w - 1, LowerChars)
                   /\ \E st \in (w + 1)..Len(s) :
                         /\ AllIn(s, w, st - 1, {" "})
                         /\ \E word \in StreetWords :
                               /\ Len(s) >= st + Len(word) - 1
                               /\ SubSeq(s, st, st + Len(word) - 1) = word

pii_patterns == <<"phone", "email", "ssn", "address">>

\* Series.str.contains(pattern, regex=True, na=False) on one cell
MatchesPattern(pii_type, cell) ==
    /\ cell \notin {NoText, NaN}
    /\ IF pii_type = "phone" THEN MatchesDigitGroups(cell, 3, 3)
       ELSE IF pii_type = "ssn" THEN MatchesDigitGroups(cell, 3, 2)
       ELSE IF pii_type = "email" THEN MatchesEmail(cell)
       ELSE MatchesAddress(cell)

\* the text columns scanned, in the order of the tables and of their columns
\* (creator_id is skipped; dates written as YYYY-MM-DD match no pattern)
ScannedColumns ==
    << [table |-> "creators", col |-> "state"],
       [table |-> "creators", col |-> "verification_level"],
       [table |-> "evidence", col |-> "signal_type"],
       [table |-> "evidence", col |-> "description"] >>

detect_pii_violations(creators_df, evidence_df) ==
    LET df(table) == IF table = "creators" THEN creators_df ELSE evidence_df
        np == Len(pii_patterns)
        scan == [k \in 1..(Len(ScannedColumns) * np) |->
                   LET c == ScannedColumns[((k - 1) \div np) + 1]
                       pii_type == pii_patterns[((k - 1) % np) + 1]
                   IN  [what |-> "Potential " \o pii_type \o " PII in " \o c.table
                                   \o "." \o c.col,
                        n |-> Cardinality({i \in 1..Len(df(c.table)) :
                                 MatchesPattern(pii_type, df(c.table)[i][c.col])})]]
        hits == SelectSeq(scan, LAMBDA x : x.n > 0)
    IN  [k \in 1..Len(hits) |-> Finding(hits[k].what, hits[k].n)[1]]

\* df.duplicated().sum()
DuplicateRows(df) ==
    Cardinality({i \in 1..Len(df) : \E j \in 1..(i - 1) : df[j] = df[i]})

\* the report: errors and warnings are the validator's two list objects
\* themselves, here with what they hold when the report is returned
generate_quality_report(creators_df, evidence_df, errors, warnings, clock) ==
    [timestamp |-> clock,
     tables |-> [creators |-> [record_count |-> Len(creators_df),
                               duplicate_rows |-> DuplicateRows(creators_df)],
                 platforms |-> [record_count |-> 0, duplicate_rows |-> 0],
                 metrics |-> [record_count |-> 0, duplicate_rows |-> 0],
                 business |-> [record_count |-> 0, duplicate_rows |-> 0],
                 evidence |-> [record_count |-> Len(evidence_df),
                               duplicate_rows |-> DuplicateRows(evidence_df)]],
     summary |-> [total_records |-> Len(creators_df) + Len(evidence_df),
                  total_tables |-> 5,
                  total_errors |-> Len(errors),
                  total_warnings |-> Len(warnings)],
     errors |-> errors,
     warnings |-> warnings]

MaxRuns == 2          \* calls of run_validation on one validator

ValidatorCreatorKinds ==
    { ValidatorCreatorRow(extract_creator_id("bird", "X"), "NE", "High", 9000, 10, 50),
      ValidatorCreatorRow("c1", "KS", "Medium", 5000, 10, 50),
      ValidatorCreatorRow(extract_creator_id("Wren", "Twitch"), "IA", "Low", 3000,
                          10, 105) }

ValidatorEvidenceKinds ==
    << ValidatorEvidenceRow(extract_creator_id("bird", "X"), "geotag", "Omaha", 50, 0),
       ValidatorEvidenceRow(extract_creator_id("bird", "X"), "registry",
                            "call 402-555-0100", 150, 0) >>

InitValidate ==
    /\ creators \in SeqsUpTo(ValidatorCreatorKinds, MaxCreators)
    /\ evidence \in SortedTables(ValidatorEvidenceKinds, MaxEvidence)
    /\ platforms = <<>>
    /\ now = ClockDays[1]
    /\ pc = "validate"
    /\ idx = 0
    /\ verification_results = <<>>
    /\ report = NoValue
    /\ result = NoValue
    /\ previous = NoValue
    /\ bio = NoText
    /\ verification_scores = <<>>
    /\ aggregate = NoValue
    /\ business = <<>> /\ tier_args = NoValue /\ metrics = NoValue
    /\ metric_rows = <<>>
    /\ SaveIdle
    /\ validation_errors = <<>>
    /\ validation_warnings = <<>>
    /\ reports = <<>>

\* report = validator.run_validation(): the two lists are extended in place,
\* and every report returned so far holds these same two lists
\* (validate_metrics_ranges finds nothing in a metrics table without rows)
RunValidation ==
    /\ pc = "validate"
    /\ Len(reports) < MaxRuns
    /\ LET errors == validation_errors
                       \o validate_creator_ids(creators)
                       \o validate_categorical_fields(creators)
                       \o validate_data_consistency(creators, evidence)
                       \o validate_date_consistency(creators, now)
                       \o validate_evidence_weights(evidence)
           warnings == validation_warnings \o detect_pii_violations(creators, evidence)
       IN  /\ validation_errors' = errors
           /\ validation_warnings' = warnings
           /\ reports' =
                 Append([i \in 1..Len(reports) |->
                           [reports[i] EXCEPT !.errors = errors, !.warnings = warnings]],
                        generate_quality_report(creators, evidence, errors, warnings, now))
    /\ UNCHANGED <<creators, evidence, platforms, now, pc, idx, verification_results,
                   report, result, previous, bio, verification_scores, aggregate,
                   business, tier_args, metrics, metric_rows, all_creator_metrics,
                   calculated_metrics>>

NextValidate == RunValidation \/ Tick

SpecValidate == InitValidate /\ [][NextValidate]_vars

-----------------------------------------------------------------------------
(* Properties of single lookups.                                           *)

\* the breakdown entries of the signals that do not read the clock
ClockFree(out) ==
    SelectSeq(out.verification_breakdown, LAMBDA e : e.type # "geotag_consistency")

-----------------------------------------------------------------------------
(* Properties of the batch run.                                            *)

\* the rows of the three tables that belong to one creator
OwnData(creator_id) ==
    [creators |-> RowsOf(creators, creator_id),
     evidence |-> RowsOf(evidence, creator_id),
     platforms |-> RowsOf(platforms, creator_id)]

HasRow(creator_id) ==
    \E i \in 1..Len(verification_results) :
        verification_results[i].creator_id = creator_id

\* C5: a creator's result depends only on its own creator, evidence and
\* platform rows: every emitted row equals the row computed from the
\* creator's own rows alone, and whether a creator gets a row is decided by
\* its own rows alone, whatever other creators' rows the tables hold and
\* wherever the creator stands in the iteration order.
C5_OnlyOwnRows ==
    /\ \A i \in 1..Len(verification_results) :
          LET row == verification_results[i]
              own == verify_creator(row.creator_id, OwnData(row.creator_id),
                                    row.verification_timestamp)
          IN  IsScored(own) /\ row = FlatRow(own)
    /\ pc # "audit" =>
          \A c \in {"c1", "c2"} :
              HasRow(c) <=> IsScored(verify_creator(c, OwnData(c), now))

\* a finished run that scored two creators while the evidence table held
\* geotag records of both
C5_Witness ==
    /\ pc = "done"
    /\ HasRow("c1") /\ HasRow("c2")
    /\ Len(EvidenceOf("c1", evidence, "geotag")) > 0
    /\ Len(EvidenceOf("c2", evidence, "geotag")) > 0

\* the ids the loop has visited so far whose scoring succeeded, in order
ScoredSoFar ==
    SelectSeq(SubSeq(UniqueCreatorIds(creators), 1, idx),
              LAMBDA c : IsScored(verify_creator(c, Data, now)))

\* C9: a failure raised while scoring one creator never aborts the batch: the
\* loop visits every remaining id, the failing creator contributes no row
\* (and nothing to the summary), and every creator scored without failure
\* contributes its row, wherever the failures occur in the iteration order.
C9_FailuresDoNotAbort ==
    /\ idx <= Len(UniqueCreatorIds(creators))
    /\ pc # "audit" => idx = Len(UniqueCreatorIds(creators))
    /\ Len(verification_results) = Len(ScoredSoFar)
    /\ \A i \in 1..Len(verification_results) :
          verification_results[i].creator_id = ScoredSoFar[i]
    /\ pc = "done" =>
          IF Len(ScoredSoFar) = 0 THEN IsError(report)
          ELSE report.total_creators = Len(ScoredSoFar)

\* a finished run in which the first creator raised and a later one was scored
C9_Witness ==
    /\ pc = "done"
    /\ Len(UniqueCreatorIds(creators)) >= 2
    /\ IsExc(verify_creator(UniqueCreatorIds(creators)[1], Data, now))
    /\ HasRow(UniqueCreatorIds(creators)[Len(UniqueCreatorIds(creators))])

\* the ids of the run for which verify_creator reports Creator not found
NotFoundIds ==
    SelectSeq(UniqueCreatorIds(creators),
              LAMBDA c : IsError(verify_creator(c, Data, now)))

\* the fields generate_verification_report is documented to return
ReportFields ==
    {"total_creators", "confidence_distribution", "average_confidence",
     "state_breakdown", "verification_stats", "error"}

\* C10: an id verify_creator cannot find yields an error outcome and no score;
\* in a batch run the entity is skipped, and the batch summary counts it
\* separately from the entities whose level is Undetermined.
C10_NotFoundCountedSeparately ==
    /\ \A i \in 1..Len(NotFoundIds) : ~HasRow(NotFoundIds[i])
    /\ (pc = "done" /\ Len(NotFoundIds) > 0) =>
          \E f \in DOMAIN report \ ReportFields : report[f] = Len(NotFoundIds)

-----------------------------------------------------------------------------
(* Properties of the extractors.                                           *)

\* creator c1 has no record at all for the signal of type t
NoRecordFor(t) ==
    IF t = "bio_location" THEN bio = NoText
    ELSE IF t = "geotag_consistency" THEN Len(EvidenceOf("c1", evidence, "geotag")) = 0
    ELSE IF t = "business_registration"
    THEN Len(EvidenceOf("c1", evidence, "registry")) = 0
    ELSE IF t = "collaboration_evidence"
    THEN Len(EvidenceOf("c1", evidence, "collaboration")) = 0
    ELSE Len(RowsOf(platforms, "c1")) = 0

\* C6: for each of the five extractors, when the creator has no record at all
\* for that signal the extractor raises nothing and returns score 0.0 with a
\* non-empty rationale.
C6_MissingEvidenceScoresZero ==
    (result # NoValue /\ NoRecordFor(result.type)) =>
        /\ ~IsExc(result.out)
        /\ result.out.score = 0
        /\ Len(result.out.notes) > 0

Hits(state) ==
    IF state \notin DOMAIN state_keywords THEN 0
    ELSE Cardinality({kw \in {state_keywords[state][i] :
                                 i \in 1..Len(state_keywords[state])} :
                         Contains(Lower(bio), kw)})

OtherRegions(state) == DOMAIN state_keywords \ {state}

\* the score the priority ladder of the bio rules assigns
BioLadder(state) ==
    IF bio = NoText \/ bio = "" THEN 0
    ELSE IF Hits(state) >= 2 THEN 8000
    ELSE IF Hits(state) = 1 THEN 7000
    ELSE IF \E o \in OtherRegions(state) : Hits(o) >= 2 THEN 4000
    ELSE IF \E o \in DOMAIN state_keywords : Hits(o) >= 1 THEN 2500
    ELSE 0

\* C11: verify_bio_location follows the priority ladder for every bio and
\* target region: a missing or empty bio gives 0.0 with "No bio available";
\* >= 2 hits of the target region give 0.8, exactly 1 gives 0.7; otherwise
\* another region with >= 2 hits gives 0.4; otherwise any hit gives 0.25;
\* otherwise 0.0.  A hit of the target region wins over any number of hits of
\* the competing regions.
C11_BioPriorityLadder ==
    (result # NoValue /\ result.type = "bio_location") =>
        /\ ~IsExc(result.out)
        /\ result.out.score = BioLadder(creators[1].state)
        /\ (bio = NoText \/ bio = "") => result.out.notes = "No bio available"
        /\ (bio # NoText /\ bio # "" /\ Hits(creators[1].state) >= 1) =>
              result.out.score >= 7000

\* a bio with one hit of the target region and two of a competing region
\* was scored 0.7
C11_Witness ==
    /\ result # NoValue
    /\ result.type = "bio_location"
    /\ Hits(creators[1].state) = 1
    /\ \E o \in OtherRegions(creators[1].state) : Hits(o) >= 2
    /\ result.out.score = 7000

\* c1's geotag records, and those collected within the last 90 days: later
\* than 90 days before the clock and not later than the clock
GeotagHistory == EvidenceOf("c1", evidence, "geotag")
GeotagRecent ==
    SelectSeq(GeotagHistory,
              LAMBDA e : e.collection_date > now - RecentDays /\ e.collection_date <= now)

\* the score the geotag rules assign to r recent and h all-time records
GeotagLadder(r, h) ==
    IF h = 0 THEN 0
    ELSE IF r >= 5 THEN 6000
    ELSE IF r >= 2 THEN 4000
    ELSE IF r = 1 THEN 2000
    ELSE IF h >= 3 THEN 3000
    ELSE 1500

\* C12: verify_geotag_consistency scores a creator from the number r of its
\* geotag records collected within the last 90 days and the all-time number h
\* of its geotag records: r >= 5 gives 0.6, 2..4 give 0.4, 1 gives 0.2, r = 0
\* with h >= 3 gives 0.3, r = 0 with 0 < h < 3 gives 0.15, h = 0 gives 0.0;
\* other creators' records are never counted.
C12_GeotagLadder ==
    (result # NoValue /\ result.type = "geotag_consistency") =>
        /\ ~IsExc(result.out)
        /\ result.out.score = GeotagLadder(Len(GeotagRecent), Len(GeotagHistory))

\* c1's registry records, and those whose description contains the target
\* region string, letter case ignored
RegistryRecords == EvidenceOf("c1", evidence, "registry")
RegistryMatches ==
    SelectSeq(RegistryRecords,
              LAMBDA e : e.description # NoText
                         /\ Contains(Lower(e.description), Lower(creators[1].state)))

\* C13: verify_business_registration returns exactly 0.9 whenever at least one
\* of the creator's registry records has a description containing the target
\* region string in any case, 0.5 when the creator has registry records but
\* none of them matches, and 0.0 when the creator has no registry record.
C13_RegistryLadder ==
    (result # NoValue /\ result.type = "business_registration") =>
        /\ ~IsExc(result.out)
        /\ result.out.score =
              IF Len(RegistryMatches) >= 1 THEN 9000
              ELSE IF Len(RegistryRecords) >= 1 THEN 5000
              ELSE 0

\* the keywords of a region's lexicon; a region without a lexicon has none
Lexicon(state) ==
    IF state \in DOMAIN state_keywords
    THEN {state_keywords[state][i] : i \in 1..Len(state_keywords[state])}
    ELSE {}

\* c1's collaboration records, and those whose description contains a keyword
\* of the target region's lexicon
CollabRecords == EvidenceOf("c1", evidence, "collaboration")
CollabMatches ==
    SelectSeq(CollabRecords,
              LAMBDA e : e.description # NoText
                         /\ \E kw \in Lexicon(creators[1].state) :
                               Contains(Lower(e.description), kw))

\* C14: verify_collaboration_evidence counts the creator's collaboration
\* records whose description contains a keyword of the target region's
\* lexicon: >= 3 matching records give 0.55, 1 or 2 give 0.4, collaboration
\* records with 0 matches give 0.2, and no collaboration record gives 0.0.
C14_CollaborationLadder ==
    (result # NoValue /\ result.type = "collaboration_evidence") =>
        /\ ~IsExc(result.out)
        /\ result.out.score =
              IF Len(CollabRecords) = 0 THEN 0
              ELSE IF Len(CollabMatches) >= 3 THEN 5500
              ELSE IF Len(CollabMatches) >= 1 THEN 4000
              ELSE 2000

\* c1's platform rows
PlatformRecords == RowsOf(platforms, "c1")

\* a handle without its letter case and without one trailing _/- of, fans,
\* creator or official
NormalizedHandle(h) ==
    LET l == Lower(h)
        cut == {k \in 3..9 : k <= Len(l)
                  /\ SubSeq(l, Len(l) - k + 1, Len(l)) \in
                       {"_of", "-of", "_fans", "-fans", "_creator", "-creator",
                        "_official", "-official"}}
    IN  IF cut = {} THEN l
        ELSE SubSeq(l, 1, Len(l) - (CHOOSE k \in cut : TRUE))

DistinctHandles ==
    Cardinality({NormalizedHandle(PlatformRecords[i].handle) :
                    i \in 1..Len(PlatformRecords)})

HubCount ==
    Len(SelectSeq(PlatformRecords,
                  LAMBDA p : p.linked_hub \notin {NoText, "", "None"}))

HubPart == IF HubCount >= 2 THEN 3000 ELSE IF HubCount = 1 THEN 1500 ELSE 0
HandlePart ==
    IF DistinctHandles <= 2 /\ Len(PlatformRecords) >= 3 THEN 2000
    ELSE IF DistinctHandles <= 3 THEN 1000
    ELSE 0
CountPart ==
    IF Len(PlatformRecords) >= 4 THEN 1000
    ELSE IF Len(PlatformRecords) >= 2 THEN 500
    ELSE 0

\* C15: verify_platform_consistency returns 0.1 for a creator with a single
\* platform; otherwise min(0.5, hub + handle + count), hub being 0.3 for >= 2
\* rows with a linked hub and 0.15 for exactly 1, handle 0.2 for at most 2
\* distinct normalized handles across >= 3 platforms and otherwise 0.1 for at
\* most 3 distinct, count 0.1 for >= 4 platforms and otherwise 0.05 for >= 2.
\* Handles differing only by letter case or by a trailing _/- of, fans,
\* creator or official suffix count as one.
C15_PlatformScore ==
    (result # NoValue /\ result.type = "platform_consistency") =>
        /\ ~IsExc(result.out)
        /\ result.out.score =
              IF Len(PlatformRecords) = 1 THEN 1000
              ELSE IF HubPart + HandlePart + CountPart < 5000
              THEN HubPart + HandlePart + CountPart
              ELSE 5000

\* three platforms, two of whose handles differ only by case and suffix, scored
\* with the consistent-handles increment and capped at 0.5
C15_Witness ==
    /\ result # NoValue
    /\ result.type = "platform_consistency"
    /\ Len(PlatformRecords) = 3
    /\ DistinctHandles = 2
    /\ Cardinality({PlatformRecords[i].handle : i \in 1..3}) = 3
    /\ HubPart + HandlePart + CountPart > 5000
    /\ result.out.score = 5000

-----------------------------------------------------------------------------
(* Properties of the metrics calculator.                                   *)

\* footprint x 0.4 + (avg_engagement x 100) x 0.3 + (BPI x 20) x 0.3, in
\* ten-millionths
TierComposite ==
    (tier_args.footprint_score * 4) + (tier_args.avg_engagement * 100 * 300)
    + (tier_args.bpi * 20 * 3000000)

TierOut == metrics # NoValue /\ metrics.fn = "calculate_creator_tier"

\* C16: calculate_creator_tier buckets composite = footprint x 0.4 +
\* (avg_engagement x 100) x 0.3 + (BPI x 20) x 0.3 with inclusive lower bounds,
\* highest first: >= 150 Top, >= 80 Macro, >= 30 Mid, >= 5 Micro, otherwise
\* Undetermined; every argument triple gets a tier, exactly 150.0 is Top and
\* 149.999 is Macro.
C16_TierLadder ==
    TierOut =>
        /\ metrics.out \in {"Top", "Macro", "Mid", "Micro", "Undetermined"}
        /\ metrics.out = "Top" <=> TierComposite >= 1500000000
        /\ metrics.out = "Macro" <=>
              (TierComposite >= 800000000 /\ TierComposite < 1500000000)
        /\ metrics.out = "Mid" <=>
              (TierComposite >= 300000000 /\ TierComposite < 800000000)
        /\ metrics.out = "Micro" <=>
              (TierComposite >= 50000000 /\ TierComposite < 300000000)
        /\ TierComposite = 1499990000 => metrics.out = "Macro"

\* a composite of exactly 150.0 was classified Top
C16_Witness ==
    /\ TierOut
    /\ TierComposite = 1500000000
    /\ metrics.out = "Top"

\* a field that is missing (no key, None, NaN), empty or whitespace-only
BlankField(key) ==
    LET cell == Get(business, key)
    IN  cell \in {NoText, NaN, ""} \/ ~StripsToText(cell)

\* the indicators satisfied by the business dictionary
SatisfiedIndicators ==
    {key \in BusinessFields :
        /\ ~BlankField(key)
        /\ key = "business_entity" =>
              business[key] \notin {"Unknown", "NotApplicable"}
        /\ key = "booking_email" => Contains(business[key], "@")
        /\ key = "pricing_visible" => business[key] \in {"Yes", "Partial"}}

\* the dictionary of the worked example
ExampleBusiness ==
    [business_entity |-> "Unknown", booking_email |-> "a@b.com",
     agency_affiliation |-> "", shopfronts |-> "Etsy", pricing_visible |-> "Partial"]

\* C17: calculate_business_presence_index returns an integer in 0..5, the
\* number of satisfied indicators among: business entity present and not a
\* placeholder; booking email containing '@'; non-blank agency affiliation;
\* non-blank shopfront listing; pricing visibility Yes or Partial.  A missing,
\* empty or whitespace-only field never adds to the index, and the worked
\* example gives 3.
C17_PresenceIndexCounts ==
    (metrics # NoValue /\ metrics.fn = "calculate_business_presence_index") =>
        /\ ~IsExc(metrics.out)
        /\ metrics.out.value \in 0..5
        /\ metrics.out.value = Cardinality(SatisfiedIndicators)
        /\ business = ExampleBusiness => metrics.out.value = 3

\* c1's platform rows as the metrics calculator receives them
MetricsRecords == RowsOf(platforms, "c1")

\* ln(1 + followers) x platform_weight of the row, for a row with followers > 0
RowFootprint(p) ==
    LogTable[p.followers_count.num]
    * (IF p.platform \in DOMAIN platform_weights THEN platform_weights[p.platform]
       ELSE 50)

HasFollowers(p) == IsNum(p.followers_count) /\ p.followers_count.num > 0

RECURSIVE SumFootprints(_, _)
SumFootprints(rows, indexes) ==
    IF indexes = {} THEN 0
    ELSE LET i == CHOOSE x \in indexes : TRUE
         IN  RowFootprint(rows[i]) + SumFootprints(rows, indexes \ {i})

FootprintOut == metrics # NoValue /\ metrics.fn = "calculate_footprint_score"

\* C18: calculate_footprint_score returns the sum over the creator's platform
\* rows with followers > 0 of ln(1 + followers) x platform_weight, the weight
\* being 0.5 for a platform missing from the table; rows with zero, negative
\* or missing followers contribute nothing, so the footprint equals that of the
\* table without them and is never negative.
C18_FootprintSum ==
    FootprintOut =>
        /\ metrics.out =
              SumFootprints(MetricsRecords,
                            {i \in 1..Len(MetricsRecords) : HasFollowers(MetricsRecords[i])})
        /\ metrics.out =
              calculate_footprint_score(SelectSeq(MetricsRecords, HasFollowers))
        /\ metrics.out >= 0

\* the worked example: followers {0, 1000}, weight 0.5 for the nonzero
\* platform, footprint ln(1001) x 0.5 = 3.4544
C18_Witness ==
    /\ FootprintOut
    /\ Len(MetricsRecords) = 2
    /\ MetricsRecords[1].followers_count = Num(0)
    /\ MetricsRecords[2].followers_count = Num(1000)
    /\ MetricsRecords[2].platform = "Twitch"
    /\ metrics.out = 3454400

\* the creator's platform rows that actually have a linked hub
LinkedHubCount ==
    Len(SelectSeq(MetricsRecords, LAMBDA p : p.linked_hub \notin {NoText, "", "None"}))

\* the handle of platform a occurs in the URL or the handle of platform b
Mentions(a, b) ==
    \/ Contains(StrLower(b.url), StrLower(a.handle))
    \/ Contains(StrLower(b.handle), StrLower(a.handle))

\* the pairs of platforms one of which mentions the other
CrossReferenceCount ==
    Cardinality({pair \in (1..Len(MetricsRecords)) \X (1..Len(MetricsRecords)) :
                    /\ pair[1] < pair[2]
                    /\ MetricsRecords[pair[1]].platform # MetricsRecords[pair[2]].platform
                    /\ \/ Mentions(MetricsRecords[pair[1]], MetricsRecords[pair[2]])
                       \/ Mentions(MetricsRecords[pair[2]], MetricsRecords[pair[1]])})

\* C19: calculate_integration_score returns 0 for a creator with at most 1
\* platform and otherwise min(1, (linked_hub_count + cross_reference_count) /
\* platform_count), counting the rows that actually have a linked hub and the
\* platform pairs one of which mentions the other's handle; a creator with
\* >= 2 platforms, no linked hub and no cross-reference scores 0.
C19_IntegrationScore ==
    (metrics # NoValue /\ metrics.fn = "calculate_integration_score") =>
        /\ Len(MetricsRecords) <= 1 => metrics.out = 0
        /\ Len(MetricsRecords) >= 2 =>
              metrics.out =
                 IF LinkedHubCount + CrossReferenceCount >= Len(MetricsRecords)
                 THEN 10000
                 ELSE ((LinkedHubCount + CrossReferenceCount) * 10000)
                         \div Len(MetricsRecords)
        /\ (Len(MetricsRecords) >= 2 /\ LinkedHubCount = 0 /\ CrossReferenceCount = 0)
              => metrics.out = 0

-----------------------------------------------------------------------------
(* Properties of the breakdown.                                            *)

\* the five signal types in the order of the breakdown
FiveSignals ==
    <<"bio_location", "geotag_consistency", "business_registration",
      "collaboration_evidence", "platform_consistency">>

\* the signal types of a breakdown, in its order
TypesOf(breakdown) == [i \in 1..Len(breakdown) |-> breakdown[i].type]

\* C20: every successful verify_creator result carries a breakdown with exactly
\* the five signal types, each once and in the same order on every run, each
\* with its score, its weight from the fixed table, its contribution and its
\* rationale, together with the composite value and its level.
C20_BreakdownComplete ==
    (result # NoValue /\ IsScored(result.out)) =>
        LET breakdown == result.out.verification_breakdown
        IN  /\ TypesOf(breakdown) = FiveSignals
            /\ \A i \in 1..Len(breakdown) :
                  /\ {"score", "weight", "contribution", "notes"}
                        \subseteq DOMAIN breakdown[i]
                  /\ breakdown[i].weight = FixedWeight(breakdown[i].type)
                  /\ breakdown[i].contribution =
                        breakdown[i].score * FixedWeight(breakdown[i].type)
                  /\ Len(breakdown[i].notes) > 0
            /\ {"overall_confidence", "confidence_level"} \subseteq DOMAIN result.out
            /\ result.out.confidence_level \in {"High", "Medium", "Low", "Undetermined"}
            /\ (previous # NoValue /\ IsScored(previous.out)) =>
                  TypesOf(previous.out.verification_breakdown) = TypesOf(breakdown)

\* a creator scored twice, some of its signals scoring 0.0 and some above
C20_Witness ==
    /\ result # NoValue /\ previous # NoValue
    /\ IsScored(result.out) /\ IsScored(previous.out)
    /\ \E i, j \in 1..Len(result.out.verification_breakdown) :
          /\ result.out.verification_breakdown[i].score = 0
          /\ result.out.verification_breakdown[j].score > 0

-----------------------------------------------------------------------------
(* Properties of the audit report.                                         *)

Reported == pc = "done" /\ report # NoValue

\* the counts of a value_counts() dictionary over the given keys, added up
CountOver(f, keys) ==
    LET n(k) == IF k \in DOMAIN f THEN f[k] ELSE 0
    IN  n(keys[1]) + n(keys[2]) + n(keys[3]) + n(keys[4])

Levels == <<"High", "Medium", "Low", "Undetermined">>

\* the counts by level and by region of a report, and its evidence counts
CountsAgree ==
    /\ DOMAIN report.confidence_distribution \subseteq
          {Levels[i] : i \in 1..Len(Levels)}
    /\ CountOver(report.confidence_distribution, Levels) = report.total_creators
    /\ LET sb == report.state_breakdown
           n(st) == IF st \in DOMAIN sb THEN sb[st].count ELSE 0
       IN  n("NE") + n("IA") <= report.total_creators
    /\ \A i \in 1..Len(FiveSignals) :
          /\ FiveSignals[i] \in DOMAIN report.verification_stats
          /\ report.verification_stats[FiveSignals[i]].creators_with_evidence =
                Len(SelectSeq(verification_results,
                              LAMBDA r : r[FiveSignals[i] \o "_score"] > 0))

NestedOf(row) == verify_creator(row.creator_id, Data, now)

\* the breakdown entry of signal t in a nested record
EntryFor(r, t) ==
    r.verification_breakdown[CHOOSE i \in 1..Len(r.verification_breakdown) :
                                r.verification_breakdown[i].type = t]

\* C22: run_verification_audit returns a flat table with exactly one row per
\* distinct creator id that was scored without error, never two rows for one
\* creator even when the creators table lists the id more than once, and each
\* row holds the composite, the level and the score and rationale of all five
\* signals, equal to the values of the nested verify_creator record.
C22_OneFlatRowPerScoredCreator ==
    pc # "audit" =>
       /\ \A i, j \in 1..Len(verification_results) :
             verification_results[i].creator_id = verification_results[j].creator_id
                => i = j
       /\ {verification_results[i].creator_id : i \in 1..Len(verification_results)} =
             {c \in {creators[i].creator_id : i \in 1..Len(creators)} :
                IsScored(verify_creator(c, Data, now))}
       /\ \A i \in 1..Len(verification_results) :
             LET row == verification_results[i]
                 r == NestedOf(row)
             IN  /\ row.overall_confidence = r.overall_confidence
                 /\ row.confidence_level = r.confidence_level
                 /\ \A k \in 1..Len(FiveSignals) :
                       LET t == FiveSignals[k]
                       IN  /\ \E e \in 1..Len(r.verification_breakdown) :
                                 r.verification_breakdown[e].type = t
                           /\ {t \o "_score", t \o "_notes"} \subseteq DOMAIN row
                           /\ row[t \o "_score"] = EntryFor(r, t).score
                           /\ row[t \o "_notes"] = EntryFor(r, t).notes

\* a returned table of two rows for a creators table of three rows that
\* lists one scored id twice
C22_Witness ==
    /\ pc # "audit"
    /\ Len(creators) = 3
    /\ creators[1].creator_id = creators[3].creator_id
    /\ Len(verification_results) = 2
    /\ verification_results[1].creator_id = creators[1].creator_id

-----------------------------------------------------------------------------
(* Frame of a scoring call.                                                *)

-----------------------------------------------------------------------------
(* Properties of the engagement rate.                                      *)

\* the rows of metrics.csv the call under way reads
EngagementRows == RowsOf(metric_rows, "c1")

\* the rate of one row as the claim words it: None exactly when followers <= 0
\* or likes or comments is missing
RateIsNone(row) ==
    \/ IsNum(row.followers) /\ row.followers.num <= 0
    \/ ~IsNum(row.avg_likes_post)
    \/ ~IsNum(row.avg_comments_post)

RateOf(row) ==
    calculate_engagement_rate(row.avg_likes_post, row.avg_comments_post, row.followers)

NonNegative(row) ==
    /\ IsNum(row.avg_likes_post) => row.avg_likes_post.num >= 0
    /\ IsNum(row.avg_comments_post) => row.avg_comments_post.num >= 0

\* C24: calculate_engagement_rate returns None exactly when followers <= 0 or
\* likes or comments is missing; process_creator_metrics averages only the
\* rates that are not None and uses 0.0 when there is none, so for
\* non-negative likes and comments the avg_engagement_rate fed to the tier
\* composite is always in [0, 1].
C24_EngagementRateInUnitInterval ==
    (metrics # NoValue /\ metrics.fn = "avg_engagement_rate") =>
       /\ \A i \in 1..Len(EngagementRows) :
             (RateOf(EngagementRows[i]) = NoValue) <=> RateIsNone(EngagementRows[i])
       /\ (\A i \in 1..Len(EngagementRows) : RateIsNone(EngagementRows[i]))
             => metrics.out = Num(0)
       /\ (\A i \in 1..Len(EngagementRows) : NonNegative(EngagementRows[i]))
             => /\ IsNum(metrics.out)
                /\ metrics.out.num >= 0
                /\ metrics.out.num <= 10000

-----------------------------------------------------------------------------
(* Bounds of the composite.                                                *)

\* the uncapped weighted sum of a flat row's five scores
RowWeightedSum(row) ==
    LET s(t) == row[t \o "_score"] * WeightOf(t)
    IN  s(FiveSignals[1]) + s(FiveSignals[2]) + s(FiveSignals[3])
        + s(FiveSignals[4]) + s(FiveSignals[5])

\* C25: the extractors are bounded by 0.9 (business_registration), 0.8
\* (bio_location), 0.6 (geotag_consistency), 0.55 (collaboration_evidence) and
\* 0.5 (platform_consistency), so the composite verify_creator produces never
\* exceeds 0.7225, the level High is never produced by verify_creator or
\* run_verification_audit, and the cap at 1.0 never takes effect.
C25_CompositeBelowHigh ==
    \A i \in 1..Len(verification_results) :
       LET row == verification_results[i]
       IN  /\ row.business_registration_score <= 9000
           /\ row.bio_location_score <= 8000
           /\ row.geotag_consistency_score <= 6000
           /\ row.collaboration_evidence_score <= 5500
           /\ row.platform_consistency_score <= 5000
           /\ row.overall_confidence <= 722500
           /\ row.confidence_level # "High"
           /\ RowWeightedSum(row) < 1000000
           /\ row.overall_confidence = RowWeightedSum(row)

\* a creator with every signal at its bound: composite 0.7225, level Medium
C25_Witness ==
    \E i \in 1..Len(verification_results) :
       /\ verification_results[i].business_registration_score = 9000
       /\ verification_results[i].bio_location_score = 8000
       /\ verification_results[i].geotag_consistency_score = 6000
       /\ verification_results[i].collaboration_evidence_score = 5500
       /\ verification_results[i].platform_consistency_score = 5000
       /\ verification_results[i].overall_confidence = 722500
       /\ verification_results[i].confidence_level = "Medium"

\* C26: for every set of platform rows, none included, the score of
\* verify_platform_consistency is in [0.1, 0.5] (the sum of its parts reaches
\* 0.6, so the cap at 0.5 is effective) and its rationale is never "Basic
\* platform presence"; hence every verify_creator composite is at least 0.01
\* and the report's creators_with_evidence for platform_consistency equals
\* total_creators.
C26_PlatformFloor ==
    /\ \A i \in 1..Len(verification_results) :
          /\ verification_results[i].platform_consistency_score >= 1000
          /\ verification_results[i].platform_consistency_score <= 5000
          /\ verification_results[i].platform_consistency_notes
                # "Basic platform presence"
          /\ verification_results[i].overall_confidence >= 10000
    /\ (Reported /\ Len(verification_results) > 0) =>
          report.verification_stats["platform_consistency"].creators_with_evidence
             = report.total_creators

\* a creator with four platform rows, four base handles and no hub
C26_LowestOfMany ==
    /\ Len(verification_results) > 0
    /\ Len(PlatformRecords) = 4 /\ DistinctHandles = 4 /\ HubCount = 0
    /\ verification_results[1].platform_consistency_score = 1000

\* a finished run over two creators: the parts of c1's platform score add up
\* to 0.6 and the score is 0.5; c2 has no platform row and no evidence, and
\* its composite is 0.01; both are counted as having platform evidence
C26_Witness ==
    /\ Reported
    /\ Len(verification_results) = 2
    /\ HubPart + HandlePart + CountPart = 6000
    /\ verification_results[1].platform_consistency_score = 5000
    /\ Len(RowsOf(platforms, "c2")) = 0
    /\ verification_results[2].platform_consistency_score = 1000
    /\ verification_results[2].overall_confidence = 10000
    /\ report.total_creators = 2
    /\ report.verification_stats["platform_consistency"].creators_with_evidence = 2

-----------------------------------------------------------------------------
(* Adding a geotag record.                                                 *)

\* the geotag records that can be added for creator c1
AddableGeotags ==
    {GeotagKinds[i] : i \in {k \in 1..Len(GeotagKinds) : GeotagKinds[k].creator_id = "c1"}}

\* the geotag score of c1, at the same clock, once record g is added
GeotagScoreWith(g) == verify_geotag_consistency("c1", Append(evidence, g), now).score

\* the extractor counts record g as recent, and c1's records so far
CountedRecent(g) == g.collection_date > now - RecentDays
CountedRecentSoFar == Len(SelectSeq(GeotagHistory, CountedRecent))

GeotagScored == result # NoValue /\ result.type = "geotag_consistency"

\* C27 (as stated): with the clock held fixed, adding one more geotag record
\* for a creator, recent or historical, never lowers the creator's
\* geotag_consistency score.
C27_GeotagMonotone ==
    GeotagScored =>
       \A g \in AddableGeotags : GeotagScoreWith(g) >= result.out.score

\* C27 (amended): adding one more geotag record never lowers the score, except
\* that a first recent record added to three or more historical ones lowers
\* it from 0.3 to 0.2.
C27_GeotagMonotoneButFirstRecent ==
    GeotagScored =>
       \A g \in AddableGeotags :
          \/ GeotagScoreWith(g) >= result.out.score
          \/ /\ CountedRecent(g)
             /\ CountedRecentSoFar = 0
             /\ Len(GeotagHistory) >= 3
             /\ result.out.score = 3000
             /\ GeotagScoreWith(g) = 2000

\* one recent record scored 0.2; a second recent one raises the score to 0.4,
\* a historical one leaves it at 0.2
C27_Witness ==
    /\ GeotagScored
    /\ CountedRecentSoFar = 1
    /\ result.out.score = 2000
    /\ \E g \in AddableGeotags : CountedRecent(g) /\ GeotagScoreWith(g) = 4000
    /\ \E g \in AddableGeotags : ~CountedRecent(g) /\ GeotagScoreWith(g) = 2000

-----------------------------------------------------------------------------
(* Creators of every valid state.                                          *)

\* C28: verify_creator completes with a scored result, raising nothing, for
\* every creator whose state is NE, IA or Undetermined and for every
\* combination of the creator's evidence records, collaboration and registry
\* records included, so run_verification_audit emits a row for each of them.
C28_ValidStatesAlwaysScored ==
    pc # "audit" =>
       \A i \in 1..Len(creators) :
          creators[i].state \in valid_states =>
             /\ ~IsExc(verify_creator(creators[i].creator_id, Data, now))
             /\ IsScored(verify_creator(creators[i].creator_id, Data, now))
             /\ HasRow(creators[i].creator_id)

-----------------------------------------------------------------------------
(* Properties of the saved metrics.                                        *)

PipelineIds == {Sha256Hex[c] : c \in DOMAIN Sha256Hex}

\* C29: save_calculated_metrics writes exactly one output row for every
\* creator id of the dictionary it is given, the ids being the SHA-256 hex ids
\* of the pipeline, so every creator processed by main appears in
\* calculated_metrics.csv; "No metrics to save" occurs only for an empty
\* dictionary.
C29_OneRowPerCreator ==
    (/\ calculated_metrics # NoValue
     /\ \A i \in 1..Len(all_creator_metrics) :
           all_creator_metrics[i].creator_id \in PipelineIds) =>
       IF Len(all_creator_metrics) = 0
       THEN "warning" \in DOMAIN calculated_metrics
       ELSE /\ "file" \in DOMAIN calculated_metrics
            /\ Len(calculated_metrics.file) = Len(all_creator_metrics)
            /\ \A i \in 1..Len(all_creator_metrics) :
                  calculated_metrics.file[i].creator_id =
                     all_creator_metrics[i].creator_id

-----------------------------------------------------------------------------
(* Properties of repeated validation.                                      *)

\* C30: calling run_validation twice on the same DataValidator over unchanged
\* data yields two reports with the same errors and warnings (same lists,
\* same total_errors and total_warnings), and a report already returned is
\* not altered by a later run_validation call.
C30_RevalidationRepeatsTheReport ==
    /\ [](Len(reports) >= 2 =>
            /\ reports[1].errors = reports[2].errors
            /\ reports[1].warnings = reports[2].warnings
            /\ reports[1].summary.total_errors = reports[2].summary.total_errors
            /\ reports[1].summary.total_warnings = reports[2].summary.total_warnings)
    /\ [][\A i \in 1..Len(reports) : reports'[i] = reports[i]]_vars
====
